---- MODULE Spec2Model ----
(***************************************************************************)
(* A model of the ai-image-analyzer record store (lib/database.js, kept in *)
(* src/lib/hashImage.js), of the vector store (lib/vectorStore.js) and of  *)
(* the HTTP handlers that call them.                                       *)
(*                                                                         *)
(* Representation of JavaScript values                                     *)
(*   - a text (imageSummary, domain, filename, a search query ...) is a    *)
(*     sequence of one-character strings, so that toLowerCase and includes *)
(*     are computed character by character;                                *)
(*   - an id or an image hash is a TLA+ string; the value undefined of     *)
(*     such a field is the reserved string Undefined;                      *)
(*   - an object is a function from key names to values; a key the object  *)
(*     does not have reads as undefined (Prop);                            *)
(*   - an ISO timestamp is the millisecond count it denotes: toISOString   *)
(*     and new Date(string) are inverse at millisecond precision;          *)
(*   - a nullable value, and the result of a lookup that may find nothing, *)
(*     is a sequence of length 0 (null, undefined) or 1.                   *)
(***************************************************************************)
EXTENDS Integers, Sequences, FiniteSets, TLC

VARIABLES file,      \* the record store file at DB_PATH
          vstore,    \* the vector store file at STORE_PATH, parsed
          uploads,   \* the files of tmp_uploads
          mockMode,  \* USE_MOCK_DATA
          writable,  \* whether fs.writeFileSync succeeds
          clock,     \* Date.now(), in milliseconds
          analysed,  \* history: the image hashes whose analysis has completed
          inflight,  \* the calls of the server processes that share the files
          page,      \* the state of the page src/pages/index.jsx in a browser
          last       \* the last call made, its arguments and its outcome

vars == <<file, vstore, uploads, mockMode, writable, clock, analysed, inflight,
          page, last>>

-----------------------------------------------------------------------------
(* Bounds *)

MaxClock == 1
MaxEntries == 2

-----------------------------------------------------------------------------
(* Texts *)

UpperCase == <<"A","B","C","D","E","F","G","H","I","J","K","L","M",
               "N","O","P","Q","R","S","T","U","V","W","X","Y","Z">>
LowerCase == <<"a","b","c","d","e","f","g","h","i","j","k","l","m",
               "n","o","p","q","r","s","t","u","v","w","x","y","z">>

ToLowerChar(c) ==
  IF \E i \in DOMAIN UpperCase : UpperCase[i] = c
  THEN LowerCase[CHOOSE i \in DOMAIN UpperCase : UpperCase[i] = c]
  ELSE c

\* String.prototype.toLowerCase
toLowerCase(s) == [i \in DOMAIN s |-> ToLowerChar(s[i])]

\* String.prototype.includes: s has q as a contiguous substring
includes(s, q) ==
  \E start \in 1..(Len(s) - Len(q) + 1) : SubSeq(s, start, start + Len(q) - 1) = q

EmptyText == <<>>
T_unknown == <<"u","n","k","n","o","w","n">>
T_Unknown == <<"U","n","k","n","o","w","n">>
T_Medium  == <<"M","e","d","i","u","m">>
T_High    == <<"H","i","g","h">>
T_Medical == <<"M","e","d","i","c","a","l">>
T_General == <<"G","e","n","e","r","a","l">>
T_RedApple == <<"R","e","d"," ","A","p","p","l","e">>
T_apple   == <<"a","p","p","l","e">>
T_APPLE   == <<"A","P","P","L","E">>
T_pie     == <<"p","i","e">>
T_med     == <<"m","e","d">>
T_catpng  == <<"c","a","t",".","P","N","G">>
T_png     == <<"p","n","g">>
T_xray    == <<"X","-","r","a","y">>

-----------------------------------------------------------------------------
(* JavaScript values *)

Undefined == "undefined"
Null == <<>>
EmptyArray == <<>>
EmptyObject == <<>>

\* o[k] for a key holding an id or a hash: undefined when o has no such key
Prop(o, k) == IF k \in DOMAIN o THEN o[k] ELSE Undefined

\* p[k] || d
\* for a text (the empty string is falsy)
TextOr(p, k, d) == IF k \in DOMAIN p /\ p[k] # EmptyText THEN p[k] ELSE d
\* for an array, an object or a nullable vector (every array and object is truthy)
ValueOr(p, k, d) == IF k \in DOMAIN p THEN p[k] ELSE d
\* for an id (undefined and the empty string are falsy)
IdOr(p, k, d) == IF Prop(p, k) \notin {Undefined, ""} THEN p[k] ELSE d

\* { ...a, ...b }
\* a spread in which the values of the first object win
Spread_FirstWins(a, b) ==
  [k \in (DOMAIN a) \cup (DOMAIN b) |-> IF k \in DOMAIN a THEN a[k] ELSE b[k]]

\* { ...a, ...b }
Spread(a, b) ==
  [k \in (DOMAIN a) \cup (DOMAIN b) |-> IF k \in DOMAIN b THEN b[k] ELSE a[k]]

\* JSON.parse(JSON.stringify(o)) of an analysis record: JSON.stringify leaves
\* out every key whose value is undefined; texts, arrays, null, objects and
\* integers come back as they were written
IdKeys == {"id", "imageHash"}
JsonRecord(o) ==
  [k \in {j \in DOMAIN o : ~(j \in IdKeys /\ o[j] = Undefined)} |-> o[k]]
JsonDB(db) ==
  [analyses |-> [i \in DOMAIN db.analyses |-> JsonRecord(db.analyses[i])],
   metadata |-> db.metadata]

-----------------------------------------------------------------------------
(* The store file *)

\* what the file at DB_PATH holds
\*   "absent"      no file
\*   "json"        a JSON document, value its parsed form
\*   "blank"       the empty string
\*   "garbage"     text that JSON.parse rejects
\*   "unreadable"  a file fs.readFileSync cannot read
NoFile == [kind |-> "absent"]
JsonFile(v) == [kind |-> "json", value |-> v]
BlankFile == [kind |-> "blank"]
GarbageFile == [kind |-> "garbage"]
UnreadableFile == [kind |-> "unreadable"]

\* the outcome of a call: the value returned or the fact that it threw, and
\* the file the call leaves
Return(v, f) == [threw |-> FALSE, ret |-> v, file |-> f]
Throw(f) == [threw |-> TRUE, ret |-> Undefined, file |-> f]

InitialData(now) ==
  [analyses |-> <<>>, metadata |-> [createdAt |-> now, totalAnalyses |-> 0]]

EmptyDB == [analyses |-> <<>>, metadata |-> [totalAnalyses |-> 0]]

\* initDB(): creates the file when there is none; fs.writeFileSync is not
\* guarded here, so its failure propagates
initDB(f, now, w) ==
  IF f.kind = "absent"
  THEN IF w THEN Return(Undefined, JsonFile(InitialData(now))) ELSE Throw(f)
  ELSE Return(Undefined, f)

\* readDB(): ret is the object the caller works on
readDB(f, now, w) ==
  LET i == initDB(f, now, w) IN
  IF i.threw THEN i
  ELSE CASE i.file.kind = "json" -> Return(i.file.value, i.file)
         [] i.file.kind = "blank" -> Return(EmptyDB, i.file)
         [] OTHER -> Return(EmptyDB, i.file)

\* a writeDB that reports success and leaves the file as it was
writeDB_Skips(f, data, w) == Return(TRUE, f)

\* writeDB(data): ret is true when the file was written, false when
\* fs.writeFileSync threw (caught and logged)
writeDB(f, data, w) ==
  IF w THEN Return(TRUE, JsonFile(JsonDB(data))) ELSE Return(FALSE, f)

\* db.analyses and db.metadata are objects (not undefined)
HasAnalyses(db) == "analyses" \in DOMAIN db
HasMetadata(db) == "metadata" \in DOMAIN db

-----------------------------------------------------------------------------
(* saveAnalysis *)

\* `analysis_${Date.now()}_${Math.random().toString(36).substr(2, 9)}`
GeneratedId(now, rnd) == "analysis_" \o ToString(now) \o "_" \o rnd

NewAnalysis(analysisData, now, rnd) ==
  [id |-> IdOr(analysisData, "id", GeneratedId(now, rnd)),
   timestamp |-> now,
   imageHash |-> Prop(analysisData, "id"),
   filename |-> TextOr(analysisData, "filename", T_unknown),
   imageSummary |-> TextOr(analysisData, "imageSummary", EmptyText),
   detectedElements |-> ValueOr(analysisData, "detectedElements", EmptyArray),
   detailedExplanation |-> TextOr(analysisData, "detailedExplanation", EmptyText),
   realWorldApplications |-> TextOr(analysisData, "realWorldApplications", EmptyText),
   educationalInsight |-> TextOr(analysisData, "educationalInsight", EmptyText),
   confidenceLevel |-> TextOr(analysisData, "confidenceLevel", T_Medium),
   domain |-> TextOr(analysisData, "domain", T_Unknown),
   extractedText |-> TextOr(analysisData, "extractedText", EmptyText),
   caption |-> TextOr(analysisData, "caption", EmptyText),
   rawVision |-> TextOr(analysisData, "rawVision", EmptyText),
   related |-> ValueOr(analysisData, "related", EmptyArray),
   embedding |-> ValueOr(analysisData, "embedding", Null),
   metadata |-> ValueOr(analysisData, "metadata", EmptyObject)]

\* a findIndex that compares a key the records do not have
findIndexByHash_WrongKey(analyses, hash) ==
  IF \E i \in DOMAIN analyses : Prop(analyses[i], "hash") = hash
  THEN CHOOSE i \in DOMAIN analyses : Prop(analyses[i], "hash") = hash
  ELSE 0

\* analyses.findIndex(a => a.imageHash === hash): 0 stands for -1
findIndexByHash(analyses, hash) ==
  IF \E i \in DOMAIN analyses : Prop(analyses[i], "imageHash") = hash
  THEN CHOOSE i \in DOMAIN analyses :
         /\ Prop(analyses[i], "imageHash") = hash
         /\ \A j \in 1..(i - 1) : Prop(analyses[j], "imageHash") # hash
  ELSE 0

\* an update that takes the record out and puts the merged record at the end
SavedAnalyses_MovesToEnd(analyses, analysis) ==
  LET existingIndex == findIndexByHash(analyses, analysis.imageHash)
      Others(a) == a # analyses[existingIndex]
  IN IF existingIndex >= 1
     THEN Append(SelectSeq(analyses, Others), Spread(analyses[existingIndex], analysis))
     ELSE Append(analyses, analysis)

\* the collection after the update or the insert
SavedAnalyses(analyses, analysis) ==
  LET existingIndex == findIndexByHash(analyses, analysis.imageHash) IN
  IF existingIndex >= 1
  THEN [analyses EXCEPT ![existingIndex] = Spread(analyses[existingIndex], analysis)]
  ELSE Append(analyses, analysis)

saveAnalysis(f, analysisData, now, rnd, w) ==
  LET r == readDB(f, now, w) IN
  IF r.threw THEN r
  ELSE
    LET db == r.ret
        analysis == NewAnalysis(analysisData, now, rnd)
    IN IF ~HasAnalyses(db) THEN Throw(r.file)
       ELSE
         LET existingIndex == findIndexByHash(db.analyses, analysis.imageHash)
             analyses == SavedAnalyses(db.analyses, analysis)
         IN IF existingIndex >= 1
            THEN Return(analysis,
                        writeDB(r.file, [db EXCEPT !.analyses = analyses], w).file)
            ELSE IF ~HasMetadata(db) THEN Throw(r.file)
            ELSE Return(analysis,
                        writeDB(r.file,
                                [db EXCEPT !.analyses = analyses,
                                           !.metadata.totalAnalyses = Len(analyses)],
                                w).file)

-----------------------------------------------------------------------------
(* Lookups *)

\* analyses.find(test): the first element that passes, undefined when none
\* does; the result is Found(element) or NotFound
NotFound == <<>>
Found(a) == <<a>>

FirstIndex(analyses, Test(_)) ==
  CHOOSE i \in DOMAIN analyses :
    Test(analyses[i]) /\ \A j \in 1..(i - 1) : ~Test(analyses[j])

find(analyses, Test(_)) ==
  IF \E i \in DOMAIN analyses : Test(analyses[i])
  THEN Found(analyses[FirstIndex(analyses, Test)])
  ELSE NotFound

\* a.id === id || a.imageHash === id
MatchesId(a, id) == Prop(a, "id") = id \/ Prop(a, "imageHash") = id

getAnalysisById(f, id, now, w) ==
  LET r == readDB(f, now, w) IN
  IF r.threw THEN r
  ELSE IF ~HasAnalyses(r.ret) THEN Throw(r.file)
  ELSE LET Test(a) == MatchesId(a, id)
       IN Return(find(r.ret.analyses, Test), r.file)

getAnalysisByHash(f, hash, now, w) ==
  LET r == readDB(f, now, w) IN
  IF r.threw THEN r
  ELSE IF ~HasAnalyses(r.ret) THEN Throw(r.file)
  ELSE LET Test(a) == Prop(a, "imageHash") = hash
       IN Return(find(r.ret.analyses, Test), r.file)

-----------------------------------------------------------------------------
(* getAllAnalyses *)

\* a sort with the comparison the other way round: oldest first
InsertByTimestamp_Ascending(sorted, a) ==
  LET ahead == {i \in DOMAIN sorted : sorted[i].timestamp <= a.timestamp}
      n == Cardinality(ahead)
  IN SubSeq(sorted, 1, n) \o <<a>> \o SubSeq(sorted, n + 1, Len(sorted))

\* Array.prototype.sort((a, b) => new Date(b.timestamp) - new Date(a.timestamp)):
\* a stable sort, most recent first
InsertByTimestamp(sorted, a) ==
  LET ahead == {i \in DOMAIN sorted : sorted[i].timestamp >= a.timestamp}
      n == Cardinality(ahead)
  IN SubSeq(sorted, 1, n) \o <<a>> \o SubSeq(sorted, n + 1, Len(sorted))

RECURSIVE sortByTimestampDesc(_)
sortByTimestampDesc(analyses) ==
  IF Len(analyses) <= 1 THEN analyses
  ELSE InsertByTimestamp(sortByTimestampDesc(SubSeq(analyses, 1, Len(analyses) - 1)),
                         analyses[Len(analyses)])

\* the index Array.prototype.slice makes of an argument: a negative one counts
\* from the end
SliceIndex(k, len) ==
  IF k < 0 THEN (IF len + k < 0 THEN 0 ELSE len + k)
  ELSE (IF k > len THEN len ELSE k)

\* Array.prototype.slice(start, end), indices from 0, end excluded
slice(s, start, end) ==
  SubSeq(s, SliceIndex(start, Len(s)) + 1, SliceIndex(end, Len(s)))

\* limit is null (Null) or a number (<<n>>); if (limit) passes for a number
\* other than 0
Truthy(limit) == limit # Null /\ limit[1] # 0

\* a list that writes the sorted collection back to the file
getAllAnalyses_SortsStore(f, limit, offset, now, w) ==
  LET r == readDB(f, now, w) IN
  IF r.threw THEN r
  ELSE IF ~HasAnalyses(r.ret) THEN Throw(r.file)
  ELSE LET analyses == sortByTimestampDesc(r.ret.analyses)
           sorted == writeDB(r.file, [r.ret EXCEPT !.analyses = analyses], w).file
       IN IF Truthy(limit)
          THEN Return(slice(analyses, offset, offset + limit[1]), sorted)
          ELSE Return(analyses, sorted)

getAllAnalyses(f, limit, offset, now, w) ==
  LET r == readDB(f, now, w) IN
  IF r.threw THEN r
  ELSE IF ~HasAnalyses(r.ret) THEN Throw(r.file)
  ELSE LET analyses == sortByTimestampDesc(r.ret.analyses)
       IN IF Truthy(limit)
          THEN Return(slice(analyses, offset, offset + limit[1]), r.file)
          ELSE Return(analyses, r.file)

-----------------------------------------------------------------------------
(* searchAnalyses *)

\* a match that leaves the case of the fields as it is
SearchHit_CaseSensitive(analysis, lowerQuery) ==
  \/ includes(analysis.imageSummary, lowerQuery)
  \/ includes(analysis.detailedExplanation, lowerQuery)
  \/ includes(analysis.domain, lowerQuery)
  \/ includes(analysis.extractedText, lowerQuery)
  \/ \E e \in DOMAIN analysis.detectedElements :
       includes(analysis.detectedElements[e], lowerQuery)
  \/ includes(analysis.filename, lowerQuery)

\* (field || '').toLowerCase().includes(lowerQuery), over the six fields
SearchHit(analysis, lowerQuery) ==
  \/ includes(toLowerCase(analysis.imageSummary), lowerQuery)
  \/ includes(toLowerCase(analysis.detailedExplanation), lowerQuery)
  \/ includes(toLowerCase(analysis.domain), lowerQuery)
  \/ includes(toLowerCase(analysis.extractedText), lowerQuery)
  \/ \E e \in DOMAIN analysis.detectedElements :
       includes(toLowerCase(analysis.detectedElements[e]), lowerQuery)
  \/ includes(toLowerCase(analysis.filename), lowerQuery)

searchAnalyses(f, query, now, w) ==
  LET r == readDB(f, now, w) IN
  IF r.threw THEN r
  ELSE IF ~HasAnalyses(r.ret) THEN Throw(r.file)
  ELSE LET lowerQuery == toLowerCase(query)
           Test(a) == SearchHit(a, lowerQuery)
       IN Return(SelectSeq(r.ret.analyses, Test), r.file)

-----------------------------------------------------------------------------
(* deleteAnalysis *)

\* a filter that looks at imageHash only
RemainingAnalyses_HashOnly(analyses, id) ==
  LET Keep(a) == Prop(a, "imageHash") # id
  IN SelectSeq(analyses, Keep)

\* db.analyses.filter(a => a.id !== id && a.imageHash !== id)
RemainingAnalyses(analyses, id) ==
  LET Keep(a) == Prop(a, "id") # id /\ Prop(a, "imageHash") # id
  IN SelectSeq(analyses, Keep)

\* a delete that leaves metadata.totalAnalyses as it was
deleteAnalysis_KeepsCount(f, id, now, w) ==
  LET r == readDB(f, now, w) IN
  IF r.threw THEN r
  ELSE IF ~HasAnalyses(r.ret) THEN Throw(r.file)
  ELSE LET db == r.ret
           initialLength == Len(db.analyses)
           analyses == RemainingAnalyses(db.analyses, id)
       IN IF ~HasMetadata(db) THEN Throw(r.file)
          ELSE Return(initialLength > Len(analyses),
                      writeDB(r.file, [db EXCEPT !.analyses = analyses], w).file)

deleteAnalysis(f, id, now, w) ==
  LET r == readDB(f, now, w) IN
  IF r.threw THEN r
  ELSE IF ~HasAnalyses(r.ret) THEN Throw(r.file)
  ELSE LET db == r.ret
           initialLength == Len(db.analyses)
           analyses == RemainingAnalyses(db.analyses, id)
       IN IF ~HasMetadata(db) THEN Throw(r.file)
          ELSE Return(initialLength > Len(analyses),
                      writeDB(r.file,
                              [db EXCEPT !.analyses = analyses,
                                         !.metadata.totalAnalyses = Len(analyses)],
                              w).file)

-----------------------------------------------------------------------------
(* getStats *)

RecentCount == 10
SummaryChars == 100
Ellipsis == <<".", ".", ".">>

\* a count that starts again at 1 each time
Increment_Reset(counts, key) ==
  [k \in (DOMAIN counts) \cup {key} |-> IF k = key THEN 1 ELSE counts[k]]

\* counts[key] = (counts[key] || 0) + 1
Increment(counts, key) ==
  [k \in (DOMAIN counts) \cup {key} |->
     IF k = key THEN (IF key \in DOMAIN counts THEN counts[key] ELSE 0) + 1
     ELSE counts[k]]

\* the forEach loop over db.analyses, from the maps it starts with
RECURSIVE CountAll(_, _)
CountAll(analyses, stats) ==
  IF analyses = <<>> THEN stats
  ELSE LET analysis == Head(analyses)
           domain == TextOr(analysis, "domain", T_Unknown)
           conf == TextOr(analysis, "confidenceLevel", T_Medium)
       IN CountAll(Tail(analyses),
                   [stats EXCEPT !.domains = Increment(@, domain),
                                 !.confidenceLevels = Increment(@, conf)])

RecentEntry(a) ==
  [id |-> a.id, timestamp |-> a.timestamp, domain |-> a.domain,
   imageSummary |-> SubSeq(a.imageSummary, 1,
                           IF Len(a.imageSummary) < SummaryChars
                           THEN Len(a.imageSummary) ELSE SummaryChars) \o Ellipsis]

getStats(f, now, w) ==
  LET r == readDB(f, now, w) IN
  IF r.threw THEN r
  ELSE IF ~HasAnalyses(r.ret) THEN Throw(r.file)
  ELSE LET sorted == sortByTimestampDesc(r.ret.analyses)
           recent == slice(sorted, 0, RecentCount)
           stats == [totalAnalyses |-> Len(r.ret.analyses),
                     domains |-> EmptyObject,
                     confidenceLevels |-> EmptyObject,
                     recentAnalyses |-> [i \in DOMAIN recent |-> RecentEntry(recent[i])]]
       IN Return(CountAll(sorted, stats), r.file)

-----------------------------------------------------------------------------
(* The vector store: src/unnamed/part_001 (lib/vectorStore.js) *)

\* the keys of the entry pushed that JSON.stringify writes: id, summary and
\* embedding are undefined when the argument has none, and a key whose value
\* is undefined is left out of the file; ts and meta have defaults
WrittenKeys(entry) == ({"id", "summary", "embedding"} \cap DOMAIN entry) \cup {"ts", "meta"}

\* readStore(): the array the file holds, the empty array when there is no
\* file yet
readStore(store) == store

\* an addEntry without the default of ts
addEntry_NoDefault(store, entry, now, w) ==
  IF w
  THEN Return([k \in (DOMAIN entry) \cup {"meta"} |->
                 IF k \in DOMAIN entry THEN entry[k] ELSE EmptyObject],
              store)
  ELSE Throw(store)

\* addEntry({ id, summary, embedding, ts = Date.now(), meta = {} }): the entry
\* as store.push and writeStore leave it in the file; fs.writeFileSync is not
\* guarded in writeStore
addEntry(store, entry, now, w) ==
  IF w
  THEN Return([k \in WrittenKeys(entry) |->
                 IF k \in DOMAIN entry THEN entry[k]
                 ELSE IF k = "ts" THEN now ELSE EmptyObject],
              store)
  ELSE Throw(store)

\* a store that keeps one entry per id: the new entry takes the place of the
\* first entry with its id
StoreAfter_OnePerId(store, out) ==
  IF out.threw THEN store
  ELSE IF \E i \in DOMAIN store : Prop(store[i], "id") = Prop(out.ret, "id")
  THEN [store EXCEPT ![CHOOSE i \in DOMAIN store :
                         Prop(store[i], "id") = Prop(out.ret, "id")] = out.ret]
  ELSE Append(store, out.ret)

\* the store file after addEntry: out is the outcome of addEntry
StoreAfter(store, out) ==
  IF out.threw THEN store ELSE Append(readStore(store), out.ret)

\* allEntries()
allEntries(store) == readStore(store)

RECURSIVE SumProducts(_, _, _)
SumProducts(a, b, i) ==
  IF i > Len(a) THEN 0 ELSE a[i] * b[i] + SumProducts(a, b, i + 1)

\* a cosine without the test for a zero magnitude: 0 / 0 stands for NaN
cosine_NoZeroTest(a, b) ==
  [num |-> SumProducts(a, b, 1),
   sq |-> SumProducts(a, a, 1) * SumProducts(b, b, 1)]

\* cosine(a, b) for vectors of one dimension, in exact arithmetic: the score
\* num / sqrt(sq), which is 0 when either magnitude is 0
cosine(a, b) ==
  LET dot == SumProducts(a, b, 1)
      magA2 == SumProducts(a, a, 1)
      magB2 == SumProducts(b, b, 1)
  IN IF magA2 = 0 \/ magB2 = 0 THEN [num |-> 0, sq |-> 1]
     ELSE [num |-> dot, sq |-> magA2 * magB2]

\* x >= y for two scores
ScoreGE(x, y) ==
  IF x.num >= 0 /\ y.num < 0 THEN TRUE
  ELSE IF x.num < 0 /\ y.num >= 0 THEN FALSE
  ELSE IF x.num >= 0 THEN x.num * x.num * y.sq >= y.num * y.num * x.sq
  ELSE x.num * x.num * y.sq <= y.num * y.num * x.sq

\* scored.sort((a, b) => b.score - a.score): a stable sort, best score first
InsertByScore(sorted, s) ==
  LET n == Cardinality({i \in DOMAIN sorted : ScoreGE(sorted[i].score, s.score)})
  IN SubSeq(sorted, 1, n) \o <<s>> \o SubSeq(sorted, n + 1, Len(sorted))

RECURSIVE sortByScoreDesc(_)
sortByScoreDesc(scored) ==
  IF Len(scored) <= 1 THEN scored
  ELSE InsertByScore(sortByScoreDesc(SubSeq(scored, 1, Len(scored) - 1)),
                     scored[Len(scored)])

\* a findSimilar that leaves out the best match
findSimilar_SkipsFirst(store, embedding, topK) ==
  IF Len(store) = 0 THEN <<>>
  ELSE LET scored == [i \in DOMAIN store |->
                        [entry |-> store[i],
                         score |-> cosine(embedding, store[i].embedding)]]
           top == slice(sortByScoreDesc(scored), 1, topK)
       IN [i \in DOMAIN top |->
             [id |-> top[i].entry.id, summary |-> top[i].entry.summary,
              score |-> top[i].score, ts |-> top[i].entry.ts]]

findSimilar(store, embedding, topK) ==
  IF Len(store) = 0 THEN <<>>
  ELSE LET scored == [i \in DOMAIN store |->
                        [entry |-> store[i],
                         score |-> cosine(embedding, store[i].embedding)]]
           top == slice(sortByScoreDesc(scored), 0, topK)
       IN [i \in DOMAIN top |->
             [id |-> top[i].entry.id, summary |-> top[i].entry.summary,
              score |-> top[i].score, ts |-> top[i].entry.ts]]

-----------------------------------------------------------------------------
(* The analysis handlers: src/pages/api/analyze.js *)

MAX_SIMILAR == 3
CaptionChars == 120
SummaryChars300 == 300
EntrySummaryChars == 500
StreamSummaryChars == 1000

\* text.slice(0, n)
TextSlice(t, n) == SubSeq(t, 1, IF Len(t) < n THEN Len(t) ELSE n)

\* the texts of the handlers, shortened
T_mockExplanation == <<"M","o","c","k"," ","m","o","d","e">>
T_mockSummary == <<"m","o","c","k"," ","i","m","a","g","e">>
T_sample == <<"S","a","m","p","l","e">>
T_seeDetail == <<"S","e","e">>
T_extract == <<"E","x","t","r","a","c","t">>
T_upload == <<"u","p","l","o","a","d">>
T_demo == <<"D","e","m","o">>

\* what the vision model answers
T_vision == <<"A","n"," ","a","p","p","l","e">>

\* new Array(1536).fill(0), in the dimension of the model's vectors
ZeroVector == <<0, 0>>

\* hashBuffer(resized): the SHA-256 of the resized image, taken as free of
\* collisions
Images == {"imgA", "imgB"}
hashBuffer(image) == IF image = "imgA" THEN "h1" ELSE "h2"

\* an HTTP response
Response(status, body) == [status |-> status, body |-> body]

\* the outcome of a handler: its response and the two files it leaves
Handled(resp, f, store) == [resp |-> resp, file |-> f, vstore |-> store]

\* saveAnalysis as the handlers call it: their payload carries an id, so
\* Math.random() is not evaluated and the suffix handed over is never used
TrySave(f, payload, now, w) ==
  saveAnalysis(f, payload, now, CHOOSE rnd \in {"r1", "r2"} : TRUE, w)

\* POST /api/analyze (lines 57-179).  req is the request: its method, the
\* uploaded image (NoImage when the form has none, "broken" for bytes sharp
\* rejects) and its file name.  api is what the external calls do.
NoImage == "none"

AnalyzeHandler(f, store, mock, req, api, now, w) ==
  IF req.method # "POST" THEN Handled(Response(405, "Only POST allowed"), f, store)
  ELSE IF req.image = NoImage THEN Handled(Response(400, "No image uploaded"), f, store)
  ELSE IF req.image = "broken" THEN Handled(Response(500, "Analysis failed"), f, store)
  ELSE IF ~mock /\ api.vision = "fail" THEN Handled(Response(500, "Analysis failed"), f, store)
  ELSE IF ~mock /\ api.embed = "fail" THEN Handled(Response(500, "Analysis failed"), f, store)
  ELSE
    LET id == hashBuffer(req.image)
        visionText == IF mock THEN T_mockExplanation ELSE T_vision
        embedding == IF mock THEN ZeroVector ELSE api.embedding
        added == addEntry(store,
                          [id |-> id, summary |-> TextSlice(visionText, EntrySummaryChars),
                           embedding |-> embedding, ts |-> now,
                           meta |-> [filename |-> TextOr(req, "filename", T_upload)]],
                          now, w)
        store2 == StoreAfter(store, added)
    IN IF added.threw THEN Handled(Response(500, "Analysis failed"), f, store)
       ELSE
         LET related == IF ~mock THEN findSimilar(store2, embedding, MAX_SIMILAR) ELSE <<>>
             finalResult ==
               [id |-> id,
                caption |-> TextSlice(visionText, CaptionChars),
                rawVision |-> visionText,
                imageSummary |-> TextSlice(visionText, SummaryChars300),
                detectedElements |-> <<>>,
                detailedExplanation |-> visionText,
                realWorldApplications |-> T_seeDetail,
                educationalInsight |-> T_extract,
                confidenceLevel |-> IF mock THEN T_Medium ELSE T_High,
                domain |-> T_General,
                extractedText |-> EmptyText,
                related |-> related,
                filename |-> TextOr(req, "filename", T_upload),
                timestamp |-> now,
                isMockData |-> mock]
             saved == TrySave(f, Spread(finalResult, [embedding |-> <<embedding>>]),
                              now, w)
             body == IF saved.threw THEN finalResult
                     ELSE Spread(finalResult, [dbId |-> saved.ret.id])
         IN Handled(Response(200, body), saved.file, store2)

\* the other two POST handlers of the repository

\* outputText.slice(0, 200) of src/unnamed/part_003
SimpleSummaryChars == 200

\* detailedExplanation of generateMockAnalysis() in src/unnamed/part_003
T_mockData == <<"m","o","c","k"," ","d","a","t","a">>

\* the POST handler of src/unnamed/part_003 (lines 57-169): a failing vision
\* call falls back to the mock text, a failing embedding call leaves the
\* embedding empty, and addEntry, findSimilar and saveAnalysis are each
\* wrapped in a try whose catch is empty
SimpleAnalyzeHandler(f, store, mock, req, api, now, w) ==
  IF req.method # "POST" THEN Handled(Response(405, "Only POST allowed"), f, store)
  ELSE IF req.image = NoImage THEN Handled(Response(400, "No image uploaded"), f, store)
  ELSE IF req.image = "broken" THEN Handled(Response(500, "Analysis failed"), f, store)
  ELSE
    LET id == hashBuffer(req.image)
        useMock == mock \/ api.vision = "fail"
        outputText == IF useMock THEN T_mockData ELSE T_vision
        embedding == IF ~useMock /\ api.embed = "ok" THEN api.embedding ELSE <<>>
        meta == IF "filename" \in DOMAIN req THEN [filename |-> req.filename]
                ELSE EmptyObject
        added == addEntry(store,
                          [id |-> id, summary |-> TextSlice(outputText, SimpleSummaryChars),
                           embedding |-> embedding, ts |-> now, meta |-> meta],
                          now, w)
        store2 == StoreAfter(store, added)
        related == IF Len(embedding) > 0
                   THEN findSimilar(store2, embedding, MAX_SIMILAR)
                   ELSE <<>>
        finalResult ==
          [id |-> id,
           filename |-> TextOr(req, "filename", T_upload),
           analysis |-> outputText,
           related |-> related,
           isMockData |-> useMock,
           timestamp |-> now]
        saved == TrySave(f, Spread(finalResult, [embedding |-> <<embedding>>]), now, w)
    IN Handled(Response(200, finalResult), saved.file, store2)

\* the POST handler of src/unnamed/part_004 (lines 64-668).  Its first
\* addEntry call (lines 382-388) is addEntry({ id, summary, ... }); the only
\* declaration of summary is the const of line 368, inside the try block of
\* the embedding call, so at line 384 the name has no binding and evaluating
\* it throws a ReferenceError on every request that gets this far.  The catch
\* of lines 658-665 answers 500; lines 390-657 never run
DetailedAnalyzeHandler(f, store, mock, req, api, now, w) ==
  IF req.method # "POST" THEN Handled(Response(405, "Only POST allowed"), f, store)
  ELSE IF req.image = NoImage THEN Handled(Response(400, "No image uploaded"), f, store)
  ELSE IF req.image = "broken" THEN Handled(Response(500, "Analysis failed"), f, store)
  ELSE Handled(Response(500, "Analysis failed"), f, store)

\* generateMockAnalysis() of the streaming handler (lines 208-229)
MockAnalysis ==
  [imageSummary |-> T_mockSummary,
   detectedElements |-> <<T_sample>>,
   detailedExplanation |-> T_mockExplanation,
   realWorldApplications |-> T_demo,
   educationalInsight |-> T_demo,
   confidenceLevel |-> T_Medium,
   domain |-> T_General,
   extractedText |-> T_sample]

\* what the formatting model answers, after the checks of lines 800-835
FormattedAnalysis ==
  [imageSummary |-> T_vision,
   detectedElements |-> <<T_RedApple>>,
   detailedExplanation |-> T_vision,
   realWorldApplications |-> T_seeDetail,
   educationalInsight |-> T_seeDetail,
   confidenceLevel |-> T_High,
   domain |-> T_Medical,
   extractedText |-> EmptyText]

\* the analysis when the answer of the formatting model is no JSON (lines 836-851)
FallbackAnalysis(caption, llmText) ==
  [imageSummary |-> caption,
   detectedElements |-> <<>>,
   detailedExplanation |-> llmText,
   realWorldApplications |-> T_seeDetail,
   educationalInsight |-> T_seeDetail,
   confidenceLevel |-> T_Medium,
   domain |-> T_Unknown,
   extractedText |-> EmptyText]

\* the name of an upload: the characters of its id, then its extension
UploadIds == {"u1", "u2"}
IdChars(id) ==
  CASE id = "u1" -> <<"u", "1">>
    [] id = "u2" -> <<"u", "2">>
    [] id = "u3" -> <<"u", "3">>
    [] id = "u" -> <<"u">>
    [] OTHER -> <<"?">>
FileName(u) == IdChars(u.id) \o <<".", "p", "n", "g">>

\* String.prototype.startsWith
startsWith(s, prefix) ==
  Len(prefix) <= Len(s) /\ SubSeq(s, 1, Len(prefix)) = prefix

\* the files files.find(f => f.startsWith(id)) can return: the first match in
\* the order fs.readdirSync lists the directory, which is not fixed
Matches(dir, id) == {u \in dir : startsWith(FileName(u), IdChars(id))}

\* a terminal event of the stream
ErrorEvent(msg) == [event |-> "error", error |-> msg]
DoneEvent(result) == [event |-> "done", result |-> result]

NoId == ""

\* what files.find returns when no file matches
NoMatch == [id |-> NoId, image |-> NoImage]

\* GET /api/analyze-stream (lines 246-965).  req is the request: its method and
\* its id query parameter (NoId when there is none); match is the upload that
\* files.find returned (NoMatch when it returned none)
StreamHandler(f, store, mock, req, match, api, now, w) ==
  IF req.method # "GET" THEN Handled(Response(405, "Only GET allowed for SSE"), f, store)
  ELSE IF req.id = NoId THEN Handled(Response(400, "Missing id query parameter"), f, store)
  ELSE IF match.image = NoImage
    THEN Handled(Response(200, ErrorEvent("Upload not found")), f, store)
  ELSE IF match.image = "broken"
    THEN Handled(Response(200, ErrorEvent("Image processing error")), f, store)
  ELSE IF ~mock /\ api.vision = "fail"
    THEN Handled(Response(200, ErrorEvent("OpenAI API error")), f, store)
  ELSE
    LET hash == hashBuffer(match.image)
        outputText == IF mock THEN T_mockSummary ELSE T_vision
        caption == outputText
        summary == caption \o <<" ", "-", "-", " ">> \o TextSlice(outputText, StreamSummaryChars)
        embedded == ~mock /\ api.embed = "ok"
        added == IF embedded
                 THEN addEntry(store,
                               [id |-> hash, summary |-> summary,
                                embedding |-> api.embedding, ts |-> now,
                                meta |-> EmptyObject],
                               now, w)
                 ELSE Throw(store)
        store2 == StoreAfter(store, added)
        embedding == IF mock THEN api.embedding
                     ELSE IF embedded /\ ~added.threw THEN api.embedding
                     ELSE ZeroVector
        related == IF embedded /\ ~added.threw
                   THEN findSimilar(store2, api.embedding, MAX_SIMILAR)
                   ELSE <<>>
        parsed == IF mock \/ api.format = "fail" THEN MockAnalysis
                  ELSE IF api.format = "noJSON" THEN FallbackAnalysis(caption, T_vision)
                  ELSE FormattedAnalysis
        finalResult ==
          Spread(parsed,
                 [id |-> req.id,
                  related |-> related,
                  filename |-> FileName(match),
                  timestamp |-> now,
                  isMockData |-> mock])
        saved == TrySave(f, Spread(finalResult,
                                   [filename |-> T_upload, embedding |-> <<embedding>>]),
                         now, w)
        result == IF saved.threw THEN finalResult
                  ELSE Spread(finalResult,
                              [dbId |-> saved.ret.id, savedAt |-> saved.ret.timestamp])
    IN Handled(Response(200, DoneEvent(result)), saved.file, store2)

\* one thing the streaming handler does that the client, the disk or another
\* service can observe
Effect(kind, what) == [kind |-> kind, what |-> what]
sseSend(event, msg) == Effect("sse:" \o event, msg)

\* lines 259-271: the response head, then the first event
StreamOpening ==
  <<Effect("writeHead", "text/event-stream"),
    sseSend("progress", "Connection established")>>

\* lines 278-309: the uploads directory is looked up and listed
StreamLookup ==
  <<Effect("fs", "existsSync uploadsDir"), Effect("fs", "readdirSync uploadsDir")>>

\* lines 315-371: the file is read and sharp opens it
StreamRead ==
  <<sseSend("progress", "Reading uploaded file"),
    Effect("fs", "existsSync filepath"),
    Effect("fs", "readFileSync filepath"),
    sseSend("progress", "Extracting image properties..."),
    Effect("sharp", "metadata"),
    sseSend("progress", "Image"),
    Effect("sharp", "resize")>>

\* lines 486-654: the vision step, up to its last event
StreamVision(mock, api) ==
  <<sseSend("progress", "Calling vision model for comprehensive analysis")>> \o
  (IF mock
   THEN <<sseSend("progress", "Using mock data mode (no API key required)..."),
          sseSend("progress", "Generating mock analysis..."),
          sseSend("progress", "Mock analysis complete")>>
   ELSE <<sseSend("progress", "Calling OpenAI vision model"),
          Effect("api", "chat.completions.create vision")>> \o
        (IF api.vision = "fail"
         THEN <<sseSend("error", "OpenAI API error"),
                sseSend("progress", "Analysis failed due to API error"),
                Effect("end", "res.end")>>
         ELSE <<sseSend("progress", "Vision analysis received successfully")>>))

\* lines 653-683: the embedding step
StreamEmbedding(mock, api, w) ==
  <<sseSend("progress", "Vision analysis complete"),
    sseSend("partial", "Initial analysis")>> \o
  (IF mock
   THEN <<sseSend("progress", "Skipping embedding (mock mode)")>>
   ELSE <<sseSend("progress", "Creating embedding"),
          Effect("api", "embeddings.create")>> \o
        (IF api.embed = "fail" THEN <<>>
         ELSE <<sseSend("progress", "Storing in vector store"),
                Effect("fs", "addEntry")>> \o
              (IF ~w THEN <<>>
               ELSE <<sseSend("progress", "Finding similar images"),
                      Effect("fs", "findSimilar")>>)))

\* lines 685-918: the formatting step, the save and the end of the stream
StreamFinish(mock, api) ==
  <<sseSend("progress", "Formatting comprehensive analysis"),
    sseSend("partial", "Generating detailed structured output...")>> \o
  (IF mock
   THEN <<sseSend("progress", "Using mock formatted data")>>
   ELSE <<Effect("api", "chat.completions.create format")>>) \o
  <<Effect("fs", "saveAnalysis"),
    sseSend("progress", "Analysis complete and saved"),
    sseSend("done", "result"),
    Effect("end", "res.end")>>

\* lines 919-962: what the outer catch sends
StreamCaught ==
  <<sseSend("progress", "Error occurred"), sseSend("error", "Image processing error"),
    Effect("end", "res.end")>>

\* what the handler does once the request is accepted and the stream is open
StreamWork(mock, match, api, w) ==
  StreamLookup \o
  (IF match.image = NoImage
   THEN <<sseSend("error", "Upload not found"), Effect("end", "res.end")>>
   ELSE StreamRead \o
        (IF match.image = "broken" THEN StreamCaught
         ELSE IF ~mock /\ api.vision = "fail" THEN StreamVision(mock, api)
         ELSE StreamVision(mock, api) \o StreamEmbedding(mock, api, w)
                \o StreamFinish(mock, api)))

\* a handler that looks for the uploads directory before it opens the stream
StreamEffects_LookupFirst(mock, req, match, api, w) ==
  IF req.method # "GET" THEN <<Effect("json", "405")>>
  ELSE IF req.id = NoId THEN <<Effect("json", "400")>>
  ELSE <<StreamLookup[1]>> \o StreamOpening \o StreamWork(mock, match, api, w)

\* GET /api/analyze-stream (lines 246-965), as the sequence of its effects in
\* the order of the statements that cause them
StreamEffects(mock, req, match, api, w) ==
  IF req.method # "GET" THEN <<Effect("json", "405")>>
  ELSE IF req.id = NoId THEN <<Effect("json", "400")>>
  ELSE StreamOpening \o StreamWork(mock, match, api, w)

\* POST /api/upload-temp (src/pages/api/analyses/[id].js, lines 59-74): id is
\* the uuid drawn
UploadHandler(dir, req, id) ==
  IF req.method # "POST" THEN [resp |-> Response(405, "Only POST"), uploads |-> dir]
  ELSE IF req.image = NoImage THEN [resp |-> Response(400, "No image"), uploads |-> dir]
  ELSE [resp |-> Response(200, [ok |-> TRUE, id |-> id]),
        uploads |-> dir \cup {[id |-> id, image |-> req.image]}]

-----------------------------------------------------------------------------
(* Inputs *)

\* payloads handed to saveAnalysis
P_medical == [id |-> "h1", imageHash |-> "h1", domain |-> T_Medical,
              confidenceLevel |-> T_High]
P_rename == [id |-> "h1", filename |-> T_catpng]
P_apple == [id |-> "h2", detectedElements |-> <<T_xray, T_RedApple>>,
            domain |-> EmptyText]
P_anon == [imageHash |-> "h3", imageSummary |-> T_pie, timestamp |-> 0,
           domain |-> T_Medical, confidenceLevel |-> T_High]
Payloads == {P_medical, P_rename, P_apple, P_anon}

\* the outcomes of Math.random().toString(36).substr(2, 9)
RandomSuffixes == {"r1", "r2"}

\* the records of the file, none when the file holds no collection
Stored(f) ==
  IF f.kind = "json" /\ HasAnalyses(f.value) THEN f.value.analyses ELSE <<>>

StoredIds(f) == {Stored(f)[i].id : i \in DOMAIN Stored(f)}

\* ids and hashes asked for: those of the payloads, one that is never stored,
\* and the ids the store holds
IdArgs(f) == {"h1", "h3", "h9"} \cup StoredIds(f)

\* list(limit, offset): no limit, the limits 0, 1, 2 and -1, offsets inside,
\* past the end and negative
ListArgs ==
  {[limit |-> Null, offset |-> 0], [limit |-> <<0>>, offset |-> 0],
   [limit |-> <<1>>, offset |-> 0], [limit |-> <<2>>, offset |-> 1],
   [limit |-> <<1>>, offset |-> 3], [limit |-> <<-1>>, offset |-> 0],
   [limit |-> <<2>>, offset |-> -1]}
Queries == {T_apple, T_APPLE, T_med, T_png, EmptyText}

\* requests to the analysis handlers
AnalyzeRequests ==
  {[method |-> "POST", image |-> "imgA", filename |-> T_catpng],
   [method |-> "POST", image |-> "broken"],
   [method |-> "POST", image |-> NoImage],
   [method |-> "GET", image |-> "imgA"]}

UploadRequests ==
  {[method |-> "POST", image |-> "imgA"],
   [method |-> "POST", image |-> "broken"],
   [method |-> "POST", image |-> NoImage],
   [method |-> "GET", image |-> "imgA"]}

StreamRequests ==
  {[method |-> "GET", id |-> "u1"], [method |-> "GET", id |-> "u2"],
   [method |-> "GET", id |-> NoId], [method |-> "POST", id |-> "u1"]}

\* the embeddings the embedding model returns, and the values the mock
\* embedding takes
Embeddings == {<<1, 0>>, <<0, 1>>}

\* what the external calls do: the vision call and the embedding call answer
\* or throw; the formatting call answers JSON, answers other text, or throws
ApiOutcomes ==
  {[vision |-> "ok", embed |-> "ok", format |-> "ok", embedding |-> <<1, 0>>],
   [vision |-> "ok", embed |-> "ok", format |-> "fail", embedding |-> <<0, 1>>],
   [vision |-> "ok", embed |-> "fail", format |-> "noJSON", embedding |-> <<1, 0>>],
   [vision |-> "fail", embed |-> "ok", format |-> "ok", embedding |-> <<1, 0>>]}

-----------------------------------------------------------------------------
(* The list endpoint and the page: src/pages/api/analyses.js, src/pages/index.jsx *)

\* the answer of the list endpoint to the outcome of a database call: 500
\* from the catch when the call threw, else 200 with the body made of what
\* the call returned
Answered(out, Body(_)) ==
  IF out.threw
  THEN [resp |-> Response(500, [error |-> "Failed to fetch analyses"]), file |-> out.file]
  ELSE [resp |-> Response(200, Body(out.ret)), file |-> out.file]

\* the answer to a request for one analysis
AnsweredOne(got) ==
  IF ~got.threw /\ got.ret = NotFound
  THEN [resp |-> Response(404, [error |-> "Analysis not found"]), file |-> got.file]
  ELSE LET Body(ret) == ret[1] IN Answered(got, Body)

\* the answer to a request for a page of the list: analyses is the page and
\* all the outcome of the second getAllAnalyses() call
AnsweredPage(analyses, all) ==
  IF analyses.threw
  THEN LET Body(ret) == ret IN Answered(analyses, Body)
  ELSE LET Body(ret) == [analyses |-> analyses.ret, count |-> Len(analyses.ret),
                         total |-> Len(ret)]
       IN Answered(all, Body)

\* GET /api/analyses (src/pages/api/analyses.js, lines 3-55).  req is the
\* request: its method and its query, a record of the parameters given
AnalysesHandler(f, req, now, w) ==
  IF req.method = "OPTIONS" THEN [resp |-> Response(200, EmptyObject), file |-> f]
  ELSE IF req.method # "GET"
  THEN [resp |-> Response(405, [error |-> "Method not allowed"]), file |-> f]
  ELSE IF Prop(req.query, "stats") = "true"
  THEN LET Body(ret) == ret IN Answered(getStats(f, now, w), Body)
  ELSE IF "id" \in DOMAIN req.query
  THEN AnsweredOne(getAnalysisById(f, req.query.id, now, w))
  ELSE IF "search" \in DOMAIN req.query
  THEN LET Body(ret) == [results |-> ret, count |-> Len(ret)]
       IN Answered(searchAnalyses(f, req.query.search, now, w), Body)
  ELSE AnsweredPage(getAllAnalyses(f,
                                   IF "limit" \in DOMAIN req.query
                                   THEN <<req.query.limit>> ELSE Null,
                                   IF "offset" \in DOMAIN req.query
                                   THEN req.query.offset ELSE 0,
                                   now, w),
                    getAllAnalyses(f, Null, 0, now, w))

\* the page before its first effect has run: no image chosen, no result, no
\* stream; uploads and streams count the requests made since the last click
NoPage ==
  [mounted |-> FALSE, image |-> NoImage, result |-> FALSE, seen |-> FALSE,
   loading |-> FALSE, error |-> "", retryCount |-> 0, es |-> "none", esId |-> NoId,
   timer |-> FALSE, savedAnalyses |-> <<>>, stats |-> Null,
   uploads |-> 0, streams |-> 0]

\* loadAnalyses() (index.jsx, lines 311-321), given the body of the response
loadAnalyses(pg, data) ==
  IF "analyses" \in DOMAIN data
  THEN [pg EXCEPT !.savedAnalyses = data.analyses] ELSE pg

\* loadStats() (lines 323-333), given the body of the response:
\* if (data && data.stats) setStats(data.stats)
loadStats(pg, data) ==
  IF "stats" \in DOMAIN data
  THEN [pg EXCEPT !.stats = <<data.stats>>] ELSE pg

\* what the page holds once both answers are in
LoadedFrom(pg, listed, counted) ==
  [page |-> loadStats(loadAnalyses(pg, listed.resp.body), counted.resp.body),
   file |-> counted.file,
   statsResp |-> counted.resp]

\* loadAnalyses(); loadStats(): the two requests and what the page keeps of
\* their answers; the store file exists, so neither request changes it
Loaded(pg, f, now, w) ==
  LoadedFrom(pg,
             AnalysesHandler(f, [method |-> "GET", query |-> [limit |-> 5]], now, w),
             AnalysesHandler(f, [method |-> "GET", query |-> [stats |-> "true"]], now, w))

\* the body of analyzeRealtime() up to the open EventSource (lines 73-127),
\* once the upload has answered with id; first tells a click from a retry
Started(pg, id, first) ==
  [pg EXCEPT !.loading = TRUE, !.result = FALSE, !.error = "", !.retryCount = 0,
             !.es = "open", !.esId = id,
             !.seen = IF first THEN pg.result ELSE @,
             !.uploads = IF first THEN 1 ELSE @ + 1,
             !.streams = IF first THEN 1 ELSE @ + 1]

\* es.onerror with readyState CLOSED (lines 215-237); seen is the value of
\* result in the closure of the analyzeRealtime that opened the stream
Failing(pg) ==
  IF pg.seen THEN [pg EXCEPT !.es = "closed"]
  ELSE IF pg.retryCount < 1
  THEN [pg EXCEPT !.es = "closed", !.retryCount = @ + 1, !.timer = TRUE]
  ELSE [pg EXCEPT !.es = "closed", !.error = "Connection failed", !.loading = FALSE]

-----------------------------------------------------------------------------
(* Calls *)

NoCall == [op |-> "none"]

\* the server processes that share DB_PATH, and what each is doing; completed
\* is the history of the saves that have returned
Callers == {"A", "B"}
Idle == [pc |-> "idle"]
NoCalls == [at |-> [c \in Callers |-> Idle], completed |-> <<>>]

\* the record of a call of the record store: out is its outcome
Called(op, arg, out) ==
  [op |-> op, arg |-> arg, before |-> file, canWrite |-> writable,
   threw |-> out.threw, ret |-> out.ret]

AppUnchanged == UNCHANGED <<vstore, uploads, mockMode, analysed, inflight, page>>

Save(p, rnd) ==
  LET out == saveAnalysis(file, p, clock, rnd, writable) IN
  /\ file' = out.file
  /\ last' = Called("save", p, out)
  /\ UNCHANGED <<writable, clock>>
  /\ AppUnchanged

GetById(id) ==
  LET out == getAnalysisById(file, id, clock, writable) IN
  /\ file' = out.file
  /\ last' = Called("getById", id, out)
  /\ UNCHANGED <<writable, clock>>
  /\ AppUnchanged

GetByHash(hash) ==
  LET out == getAnalysisByHash(file, hash, clock, writable) IN
  /\ file' = out.file
  /\ last' = Called("getByHash", hash, out)
  /\ UNCHANGED <<writable, clock>>
  /\ AppUnchanged

List(a) ==
  LET out == getAllAnalyses(file, a.limit, a.offset, clock, writable) IN
  /\ file' = out.file
  /\ last' = Called("list", a, out)
  /\ UNCHANGED <<writable, clock>>
  /\ AppUnchanged

Search(query) ==
  LET out == searchAnalyses(file, query, clock, writable) IN
  /\ file' = out.file
  /\ last' = Called("search", query, out)
  /\ UNCHANGED <<writable, clock>>
  /\ AppUnchanged

Delete(id) ==
  LET out == deleteAnalysis(file, id, clock, writable) IN
  /\ file' = out.file
  /\ last' = Called("delete", id, out)
  /\ UNCHANGED <<writable, clock>>
  /\ AppUnchanged

Stats ==
  LET out == getStats(file, clock, writable) IN
  /\ file' = out.file
  /\ last' = Called("stats", Undefined, out)
  /\ UNCHANGED <<writable, clock>>
  /\ AppUnchanged

\* time passes
Tick ==
  /\ clock < MaxClock
  /\ clock' = clock + 1
  /\ UNCHANGED <<file, writable, last>>
  /\ AppUnchanged

\* the module is imported: initDB() runs; no vector store and no upload yet
Init ==
  /\ file = initDB(NoFile, 0, TRUE).file
  /\ vstore = <<>>
  /\ uploads = {}
  /\ mockMode = FALSE
  /\ writable = TRUE
  /\ clock = 0
  /\ analysed = {}
  /\ inflight = NoCalls
  /\ page = NoPage
  /\ last = NoCall

Next ==
  \/ \E p \in Payloads, rnd \in RandomSuffixes : Save(p, rnd)
  \/ \E id \in IdArgs(file) : GetById(id)
  \/ \E hash \in IdArgs(file) : GetByHash(hash)
  \/ \E id \in IdArgs(file) : Delete(id)
  \/ Stats
  \/ Tick

Spec == Init /\ [][Next]_vars

\* the store under save, delete and the two queries over the whole collection
NextQuery ==
  \/ \E p \in Payloads, rnd \in RandomSuffixes : Save(p, rnd)
  \/ \E id \in IdArgs(file) : Delete(id)
  \/ \E a \in ListArgs : List(a)
  \/ \E query \in Queries : Search(query)
  \/ Tick

SpecQuery == Init /\ [][NextQuery]_vars

-----------------------------------------------------------------------------
(* The store on a failing medium *)

\* contents the file can be left with from outside the program: the empty
\* string, text that is no JSON, an unreadable file, the JSON document {} and
\* the JSON document {"analyses": []}
DamagedFiles ==
  {BlankFile, GarbageFile, UnreadableFile, JsonFile(EmptyObject),
   JsonFile([analyses |-> <<>>])}

\* the file is damaged or removed
Damage(f) ==
  /\ file' = f
  /\ last' = NoCall
  /\ UNCHANGED <<writable, clock>>
  /\ AppUnchanged

\* the medium stops or starts accepting writes (permissions, a full disk)
SetWritable(b) ==
  /\ writable # b
  /\ writable' = b
  /\ UNCHANGED <<file, clock, last>>
  /\ AppUnchanged

FaultPayloads == {P_medical, P_apple}

NextFault ==
  \/ \E p \in FaultPayloads, rnd \in RandomSuffixes : Save(p, rnd)
  \/ \E id \in IdArgs(file) : GetById(id)
  \/ \E hash \in IdArgs(file) : GetByHash(hash)
  \/ \E id \in IdArgs(file) : Delete(id)
  \/ List([limit |-> Null, offset |-> 0])
  \/ Search(T_apple)
  \/ Stats
  \/ Tick
  \/ \E f \in DamagedFiles \cup {NoFile} : Damage(f)
  \/ \E b \in BOOLEAN : SetWritable(b)

SpecFault == Init /\ [][NextFault]_vars

-----------------------------------------------------------------------------
(* The application: uploads and analyses over HTTP *)

\* the record of a request: what it answered and whether an analysis of the
\* image with this hash had completed before
Requested(op, req, resp, hash) ==
  [op |-> op, arg |-> req, before |-> file, storeBefore |-> vstore,
   canWrite |-> writable, threw |-> FALSE, ret |-> resp, hash |-> hash,
   repeated |-> hash \in analysed]

\* POST /api/analyze
Analyze(req, api) ==
  LET out == AnalyzeHandler(file, vstore, mockMode, req, api, clock, writable)
      hash == IF req.image \in Images THEN hashBuffer(req.image) ELSE Undefined
  IN /\ Len(vstore) < MaxEntries
     /\ file' = out.file
     /\ vstore' = out.vstore
     /\ analysed' = IF out.resp.status = 200 THEN analysed \cup {hash} ELSE analysed
     /\ last' = Requested("analyze", req, out.resp, hash)
     /\ UNCHANGED <<uploads, mockMode, writable, clock, inflight, page>>

\* POST /api/upload-temp
Upload(req, id) ==
  LET out == UploadHandler(uploads, req, id) IN
  /\ id \notin {u.id : u \in uploads}
  /\ uploads' = out.uploads
  /\ last' = Requested("upload", req, out.resp, Undefined)
  /\ UNCHANGED <<file, vstore, mockMode, writable, clock, analysed, inflight, page>>

\* the choices of files.find for the id of a request
FindChoices(req) ==
  IF Matches(uploads, req.id) = {} THEN {NoMatch} ELSE Matches(uploads, req.id)

\* GET /api/analyze-stream
Stream(req, api) ==
  \E match \in FindChoices(req) :
    LET out == StreamHandler(file, vstore, mockMode, req, match, api, clock, writable)
        hash == IF match.image \in Images THEN hashBuffer(match.image) ELSE Undefined
        done == out.resp.status = 200 /\ out.resp.body.event = "done"
    IN /\ Len(vstore) < MaxEntries
       /\ file' = out.file
       /\ vstore' = out.vstore
       /\ analysed' = IF done THEN analysed \cup {hash} ELSE analysed
       /\ last' = Spread(Requested("stream", req, out.resp, hash),
                         [effects |-> StreamEffects(mockMode, req, match, api,
                                                    writable)])
       /\ UNCHANGED <<uploads, mockMode, writable, clock, inflight, page>>

InitApp ==
  /\ file = initDB(NoFile, 0, TRUE).file
  /\ vstore = <<>>
  /\ uploads = {}
  /\ mockMode \in BOOLEAN
  /\ writable = TRUE
  /\ clock = 0
  /\ analysed = {}
  /\ inflight = NoCalls
  /\ page = NoPage
  /\ last = NoCall

NextApp ==
  \/ \E req \in AnalyzeRequests, api \in ApiOutcomes : Analyze(req, api)
  \/ \E req \in UploadRequests, id \in UploadIds : Upload(req, id)
  \/ \E req \in StreamRequests, api \in ApiOutcomes : Stream(req, api)

SpecApp == InitApp /\ [][NextApp]_vars

-----------------------------------------------------------------------------
(* Uploads and the streams that name them *)

\* the stream requests, and one whose id is the first character of the ids
\* that upload-temp hands out
PrefixRequests == StreamRequests \cup {[method |-> "GET", id |-> "u"]}

\* the external calls all answer
AllCallsAnswer ==
  [vision |-> "ok", embed |-> "ok", format |-> "ok", embedding |-> <<1, 0>>]

NextUploads ==
  \/ \E req \in UploadRequests, id \in UploadIds : Upload(req, id)
  \/ \E req \in PrefixRequests : Stream(req, AllCallsAnswer)

SpecUploads == InitApp /\ [][NextUploads]_vars

-----------------------------------------------------------------------------
(* The page in a browser *)

\* the uuids upload-temp draws for the page, and the streams followed after
\* one click
PageUploadIds == {"u1", "u2", "u3"}
MaxAttempts == 3

PageUnchanged == UNCHANGED <<mockMode, writable, clock, inflight>>

\* what the page did last; statsResp is the answer to its stats request
PageDid(op, statsResp) == [op |-> op, statsResp |-> statsResp]

\* the page after an action that ended with the two requests
PageSteps(op, out) ==
  /\ page' = [out.page EXCEPT !.mounted = TRUE]
  /\ file' = out.file
  /\ last' = PageDid(op, IF out.statsResp = Null THEN Null ELSE <<out.statsResp>>)

\* the effect run after the first render (lines 306-309)
Mount ==
  /\ ~page.mounted
  /\ PageSteps("mount", Loaded(page, file, clock, writable))
  /\ UNCHANGED <<vstore, uploads, analysed>>
  /\ PageUnchanged

\* handleFile (lines 41-54): the user chooses an image while nothing runs
ChooseFile(image) ==
  /\ page.mounted /\ ~page.loading /\ ~page.timer
  /\ page' = [page EXCEPT !.image = image, !.result = FALSE, !.error = "",
                          !.retryCount = 0]
  /\ last' = PageDid("chooseFile", Null)
  /\ UNCHANGED <<file, vstore, uploads, analysed>>
  /\ PageUnchanged

\* a click on the real-time button, enabled when an image is chosen and
\* nothing is loading (line 501): analyzeRealtime() uploads and opens the stream
ClickRealtime(id) ==
  LET up == UploadHandler(uploads, [method |-> "POST", image |-> page.image], id) IN
  /\ page.mounted /\ page.image # NoImage /\ ~page.loading
  /\ id \notin {u.id : u \in uploads}
  /\ uploads' = up.uploads
  /\ page' = Started(page, id, TRUE)
  /\ last' = PageDid("click", Null)
  /\ UNCHANGED <<file, vstore, analysed>>
  /\ PageUnchanged

\* the page after the events of a stream: out is what the stream handler
\* did (lines 164-213)
Streamed(pg, out, now, w) ==
  IF out.resp.body.event = "done"
  THEN Loaded([pg EXCEPT !.loading = FALSE, !.es = "closed", !.result = TRUE],
              out.file, now, w)
  ELSE [page |-> [pg EXCEPT !.loading = FALSE, !.es = "closed",
                            !.error = "Analysis error"],
        file |-> out.file, statsResp |-> Null]

\* the outcome of a stream for the stores and the history
StreamSteps(out, hash) ==
  /\ vstore' = out.vstore
  /\ analysed' = IF out.resp.body.event = "done" THEN analysed \cup {hash} ELSE analysed
  /\ PageSteps("streamAnswers", Streamed(page, out, clock, writable))

\* the server handles the stream request and the page receives its events
StreamAnswers(api) ==
  \E match \in Matches(uploads, page.esId) :
    /\ page.es = "open"
    /\ Len(vstore) < MaxEntries
    /\ StreamSteps(StreamHandler(file, vstore, mockMode,
                                 [method |-> "GET", id |-> page.esId],
                                 match, api, clock, writable),
                   hashBuffer(match.image))
    /\ UNCHANGED uploads
    /\ PageUnchanged

\* the connection closes without an event of the server
ConnectionFails ==
  /\ page.es = "open"
  /\ page' = Failing(page)
  /\ last' = PageDid("connectionFails", Null)
  /\ UNCHANGED <<file, vstore, uploads, analysed>>
  /\ PageUnchanged

\* the timeout set by es.onerror runs (lines 221-227): evtSrcRef.current
\* still holds the closed EventSource, so analyzeRealtime() is called again
RetryFires(id) ==
  LET up == UploadHandler(uploads, [method |-> "POST", image |-> page.image], id) IN
  /\ page.timer
  /\ page.streams < MaxAttempts
  /\ id \notin {u.id : u \in uploads}
  /\ uploads' = up.uploads
  /\ page' = [Started(page, id, FALSE) EXCEPT !.timer = FALSE]
  /\ last' = PageDid("retry", Null)
  /\ UNCHANGED <<file, vstore, analysed>>
  /\ PageUnchanged

PageApiOutcomes == {a \in ApiOutcomes : a.embed = "ok"}

NextPage ==
  \/ Mount
  \/ \E image \in {"imgA", "broken"} : ChooseFile(image)
  \/ \E id \in PageUploadIds : ClickRealtime(id)
  \/ \E api \in PageApiOutcomes : StreamAnswers(api)
  \/ ConnectionFails
  \/ \E id \in PageUploadIds : RetryFires(id)

SpecPage == InitApp /\ [][NextPage]_vars

-----------------------------------------------------------------------------
(* The three POST handlers *)

\* POST to the handler of src/unnamed/part_003
AnalyzeSimple(req, api) ==
  LET out == SimpleAnalyzeHandler(file, vstore, mockMode, req, api, clock, writable)
      hash == IF req.image \in Images THEN hashBuffer(req.image) ELSE Undefined
  IN /\ Len(vstore) < MaxEntries
     /\ file' = out.file
     /\ vstore' = out.vstore
     /\ analysed' = IF out.resp.status = 200 THEN analysed \cup {hash} ELSE analysed
     /\ last' = Requested("analyzeSimple", req, out.resp, hash)
     /\ UNCHANGED <<uploads, mockMode, writable, clock, inflight, page>>

\* POST to the handler of src/unnamed/part_004
AnalyzeDetailed(req, api) ==
  LET out == DetailedAnalyzeHandler(file, vstore, mockMode, req, api, clock, writable)
      hash == IF req.image \in Images THEN hashBuffer(req.image) ELSE Undefined
  IN /\ Len(vstore) < MaxEntries
     /\ file' = out.file
     /\ vstore' = out.vstore
     /\ analysed' = IF out.resp.status = 200 THEN analysed \cup {hash} ELSE analysed
     /\ last' = Requested("analyzeDetailed", req, out.resp, hash)
     /\ UNCHANGED <<uploads, mockMode, writable, clock, inflight, page>>

NextHandlers ==
  \/ \E req \in AnalyzeRequests, api \in ApiOutcomes : Analyze(req, api)
  \/ \E req \in AnalyzeRequests, api \in ApiOutcomes : AnalyzeSimple(req, api)
  \/ \E req \in AnalyzeRequests, api \in ApiOutcomes : AnalyzeDetailed(req, api)
  \/ Tick

SpecHandlers == InitApp /\ [][NextHandlers]_vars

-----------------------------------------------------------------------------
(* One analysis over HTTP: src/pages/api/analyses/[id].js *)

\* a handler that answers DELETE with 200 whatever deleteAnalysis returned
AnalysisHandler_AlwaysDeleted(f, req, now, w) ==
  IF req.id = NoId
  THEN [resp |-> Response(400, "Analysis ID is required"), file |-> f]
  ELSE IF req.method = "GET"
  THEN LET got == getAnalysisById(f, req.id, now, w) IN
       IF got.threw
       THEN [resp |-> Response(500, "Failed to fetch analysis"), file |-> got.file]
       ELSE IF got.ret = NotFound
       THEN [resp |-> Response(404, "Analysis not found"), file |-> got.file]
       ELSE [resp |-> Response(200, got.ret[1]), file |-> got.file]
  ELSE IF req.method = "DELETE"
  THEN LET del == deleteAnalysis(f, req.id, now, w) IN
       IF del.threw
       THEN [resp |-> Response(500, "Failed to delete analysis"), file |-> del.file]
       ELSE [resp |-> Response(200, "Analysis deleted"), file |-> del.file]
  ELSE [resp |-> Response(405, "Method not allowed"), file |-> f]

\* GET and DELETE /api/analyses/[id] (lines 3-37); req is the request: its
\* method and the id of its path
AnalysisHandler(f, req, now, w) ==
  IF req.id = NoId
  THEN [resp |-> Response(400, "Analysis ID is required"), file |-> f]
  ELSE IF req.method = "GET"
  THEN LET got == getAnalysisById(f, req.id, now, w) IN
       IF got.threw
       THEN [resp |-> Response(500, "Failed to fetch analysis"), file |-> got.file]
       ELSE IF got.ret = NotFound
       THEN [resp |-> Response(404, "Analysis not found"), file |-> got.file]
       ELSE [resp |-> Response(200, got.ret[1]), file |-> got.file]
  ELSE IF req.method = "DELETE"
  THEN LET del == deleteAnalysis(f, req.id, now, w) IN
       IF del.threw
       THEN [resp |-> Response(500, "Failed to delete analysis"), file |-> del.file]
       ELSE IF ~del.ret
       THEN [resp |-> Response(404, "Analysis not found"), file |-> del.file]
       ELSE [resp |-> Response(200, "Analysis deleted"), file |-> del.file]
  ELSE [resp |-> Response(405, "Method not allowed"), file |-> f]

\* the methods of the requests; the route /api/analyses/[id] matches only a
\* path with an id, so every request that reaches the handler carries one
Methods == {"GET", "DELETE", "PUT", "POST"}

\* a request to /api/analyses/[id]
ById(req) ==
  LET out == AnalysisHandler(file, req, clock, writable) IN
  /\ file' = out.file
  /\ last' = [op |-> "byId", arg |-> req, before |-> file, canWrite |-> writable,
              threw |-> FALSE, ret |-> out.resp]
  /\ UNCHANGED <<writable, clock>>
  /\ AppUnchanged

NextById ==
  \/ \E p \in Payloads, rnd \in RandomSuffixes : Save(p, rnd)
  \/ \E method \in Methods, id \in IdArgs(file) : ById([method |-> method, id |-> id])
  \/ Tick

SpecById == Init /\ [][NextById]_vars

-----------------------------------------------------------------------------
(* The application on a failing medium *)

\* the requests of SpecApp, with a medium that stops and starts accepting
\* writes and a record store file left holding the JSON document {}
NextAppFault ==
  \/ \E req \in AnalyzeRequests, api \in ApiOutcomes : Analyze(req, api)
  \/ \E req \in UploadRequests, id \in UploadIds : Upload(req, id)
  \/ \E req \in StreamRequests, api \in ApiOutcomes : Stream(req, api)
  \/ \E b \in BOOLEAN : SetWritable(b)
  \/ Damage(JsonFile(EmptyObject))

SpecAppFault == InitApp /\ [][NextAppFault]_vars

-----------------------------------------------------------------------------
(* Two server processes on one store file *)

\* saveAnalysis is synchronous, so within one Node.js process a save runs
\* from readDB to writeDB before any other call starts.  Nothing locks the
\* file: another process with the same DB_PATH (a second server instance, a
\* script importing lib/database.js) can read and write between the
\* fs.readFileSync of one save and its fs.writeFileSync.

MaxSaves == 3

\* saveAnalysis up to the return of readDB(): the caller holds what it read
SaveRead(c, p, rnd) ==
  LET r == readDB(file, clock, writable) IN
  /\ inflight.at[c] = Idle
  /\ Len(inflight.completed)
       + Cardinality({d \in Callers : inflight.at[d] # Idle}) < MaxSaves
  /\ ~r.threw
  /\ file' = r.file
  /\ inflight' = [inflight EXCEPT !.at[c] =
                    [pc |-> "read", payload |-> p, rnd |-> rnd, now |-> clock,
                     snapshot |-> JsonFile(r.ret),
                     seen |-> Len(inflight.completed)]]
  /\ last' = NoCall
  /\ UNCHANGED <<vstore, uploads, mockMode, writable, clock, analysed, page>>

\* the rest of saveAnalysis: the record is built, put into the object read
\* and the whole file is rewritten from it
SaveWrite(c) ==
  /\ inflight.at[c] # Idle
  /\ LET call == inflight.at[c]
         out == saveAnalysis(call.snapshot, call.payload, call.now, call.rnd, writable)
     IN /\ file' = out.file
        /\ inflight' = [at |-> [inflight.at EXCEPT ![c] = Idle],
                        completed |-> Append(inflight.completed,
                                             [caller |-> c, id |-> out.ret.id,
                                              seen |-> call.seen])]
        /\ last' = [op |-> "save", arg |-> call.payload, before |-> file,
                    canWrite |-> writable, threw |-> out.threw, ret |-> out.ret]
  /\ UNCHANGED <<vstore, uploads, mockMode, writable, clock, analysed, page>>

RacePayloads == {P_medical, P_apple}

NextRace ==
  \/ \E c \in Callers, p \in RacePayloads, rnd \in RandomSuffixes : SaveRead(c, p, rnd)
  \/ \E c \in Callers : SaveWrite(c)
  \/ Tick

SpecRace == Init /\ [][NextRace]_vars

-----------------------------------------------------------------------------
(* The vector store on its own: addEntry, allEntries and findSimilar *)

MaxStore == 3
DefaultTopK == 3

\* entries handed to addEntry: a full entry, one that leaves ts and meta to
\* their defaults, one whose id is already used, one with the zero vector and
\* one pointing away from the others
E_full == [id |-> "h1", summary |-> T_vision, embedding |-> <<1, 0>>, ts |-> 5,
           meta |-> [filename |-> T_catpng]]
E_short == [id |-> "h2", summary |-> T_pie, embedding |-> <<1, 1>>]
E_again == [id |-> "h1", summary |-> T_apple, embedding |-> <<0, 1>>, ts |-> 7]
E_zero == [id |-> "h3", summary |-> EmptyText, embedding |-> ZeroVector,
           meta |-> EmptyObject]
E_away == [id |-> "h4", summary |-> T_med, embedding |-> <<-1, 0>>, ts |-> 0]
Entries == {E_full, E_short, E_again, E_zero, E_away}

\* findSimilar(embedding, topK): topK left out (Null), negative, 0, and below,
\* at and above the size of the store
QueryVectors == {<<1, 0>>, <<1, 2>>, ZeroVector}
TopKs == {Null, <<-1>>, <<0>>, <<1>>, <<2>>, <<5>>}

\* addEntry(entry)
Add(entry) ==
  LET out == addEntry(vstore, entry, clock, writable) IN
  /\ Len(vstore) < MaxStore
  /\ vstore' = StoreAfter(vstore, out)
  /\ last' = [op |-> "add", arg |-> entry, storeBefore |-> vstore,
              now |-> clock, threw |-> out.threw, ret |-> Undefined]
  /\ UNCHANGED <<file, uploads, mockMode, writable, clock, analysed, inflight, page>>

\* findSimilar(embedding, topK)
Query(embedding, topK) ==
  /\ last' = [op |-> "query", arg |-> [embedding |-> embedding, topK |-> topK],
              storeBefore |-> vstore, now |-> clock, threw |-> FALSE,
              ret |-> findSimilar(vstore, embedding,
                                  IF topK = Null THEN DefaultTopK ELSE topK[1])]
  /\ UNCHANGED <<file, vstore, uploads, mockMode, writable, clock, analysed, inflight, page>>

\* the module is imported at any time; within a run of calls the clock is
\* taken to stand still
InitVector ==
  /\ file = initDB(NoFile, 0, TRUE).file
  /\ vstore = <<>>
  /\ uploads = {}
  /\ mockMode = FALSE
  /\ writable = TRUE
  /\ clock \in 0..MaxClock
  /\ analysed = {}
  /\ inflight = NoCalls
  /\ page = NoPage
  /\ last = NoCall

NextVector ==
  \/ \E entry \in Entries : Add(entry)
  \/ \E embedding \in QueryVectors, topK \in TopKs : Query(embedding, topK)

SpecVector == InitVector /\ [][NextVector]_vars

-----------------------------------------------------------------------------
(* The two stores under reads *)

\* saves and adds fill the two stores, the store file can be removed, and
\* every reading operation is called in between
ReadListArgs == {[limit |-> Null, offset |-> 0], [limit |-> <<1>>, offset |-> 0]}
ReadIds == {"h1", "h9"}

NextReads ==
  \/ \E p \in FaultPayloads : Save(p, "r1")
  \/ \E id \in ReadIds : GetById(id)
  \/ \E hash \in ReadIds : GetByHash(hash)
  \/ \E a \in ReadListArgs : List(a)
  \/ Search(T_apple)
  \/ Stats
  \/ Add(E_short)
  \/ Query(<<1, 0>>, Null)
  \/ Damage(NoFile)
  \/ Tick

SpecReads == Init /\ [][NextReads]_vars

-----------------------------------------------------------------------------
(* Properties of the record store *)

\* the imageHash of a stored record, undefined when it has none
HashOf(a) == Prop(a, "imageHash")

\* the positions of the records of s with hash h
WithHash(s, h) == {i \in DOMAIN s : HashOf(s[i]) = h}

\* the last call was op and it returned
Returned(op) == last.op = op /\ ~last.threw

\* C1: the stored collection holds at most one record per distinct imageHash,
\* and a save whose hash is already present leaves the number of records as
\* it was instead of adding a second record with that hash
C1_OneRecordPerHash ==
  /\ \A i, j \in DOMAIN Stored(file) :
       i # j => HashOf(Stored(file)[i]) # HashOf(Stored(file)[j])
  /\ (Returned("save") /\ WithHash(Stored(last.before), last.ret.imageHash) # {})
       => /\ Len(Stored(file)) = Len(Stored(last.before))
          /\ Cardinality(WithHash(Stored(file), last.ret.imageHash)) = 1

\* a save found its hash in a store of two records or more and overwrote
C1_Witness ==
  /\ Returned("save")
  /\ WithHash(Stored(last.before), last.ret.imageHash) # {}
  /\ Len(Stored(file)) >= 2
  /\ Stored(file) # Stored(last.before)

\* the fields of a record that a payload supplies
PayloadFields ==
  {"filename", "imageSummary", "detectedElements", "detailedExplanation",
   "realWorldApplications", "educationalInsight", "confidenceLevel", "domain",
   "extractedText", "caption", "rawVision", "related", "embedding", "metadata"}

\* C2: after successive saves with the same imageHash every field of the
\* stored record is the merge of the payloads in call order: a save onto an
\* existing record sets the fields its payload supplies and keeps, for every
\* field its payload omits, the value the record had
C2_MergeOfPayloads ==
  (Returned("save") /\ WithHash(Stored(last.before), last.ret.imageHash) # {})
    => LET h == last.ret.imageHash
           old == Stored(last.before)[CHOOSE i \in WithHash(Stored(last.before), h) : TRUE]
           new == Stored(file)[CHOOSE i \in WithHash(Stored(file), h) : TRUE]
       IN \A k \in PayloadFields :
            new[k] = IF k \in DOMAIN last.arg THEN last.arg[k] ELSE old[k]

\* C3: getByHash(h) right after the save of a payload carrying imageHash h
\* returns a record equal to the value the save returned
C3_GetByHashAfterSave ==
  (Returned("save") /\ "imageHash" \in DOMAIN last.arg)
    => LET got == getAnalysisByHash(file, last.arg.imageHash, clock, writable)
       IN /\ ~got.threw
          /\ got.ret # NotFound
          /\ got.ret = Found(JsonRecord(last.ret))

\* C21: a save whose imageHash is already present replaces the existing
\* entry at the same position and leaves every other record and the order of
\* the records unchanged; a save with a new hash appends the record at the
\* end and leaves all existing records unchanged
C21_SaveInPlaceOrAppend ==
  Returned("save")
    => LET old == Stored(last.before)
           new == Stored(file)
           hits == WithHash(old, last.ret.imageHash)
       IN IF hits # {}
          THEN /\ Len(new) = Len(old)
               /\ \E i \in hits :
                    /\ new[i] = JsonRecord(last.ret)
                    /\ \A j \in DOMAIN old : j # i => new[j] = old[j]
          ELSE /\ Len(new) = Len(old) + 1
               /\ SubSeq(new, 1, Len(old)) = old
               /\ new[Len(new)] = JsonRecord(last.ret)

\* a save replaced the first of two records or more and changed it
C21_Witness ==
  /\ Returned("save")
  /\ Len(Stored(last.before)) >= 2
  /\ HashOf(Stored(last.before)[1]) = last.ret.imageHash
  /\ Stored(file)[1] # Stored(last.before)[1]
  /\ Stored(file)[2] = Stored(last.before)[2]

\* C22: save returns the record exactly as stored: on insert the appended
\* record, on update the merged record that sits in the collection after the
\* call, so a getById with the returned id right after the save yields an
\* equal record
C22_SaveReturnsStored ==
  Returned("save")
    => LET got == getAnalysisById(file, last.ret.id, clock, writable)
       IN /\ ~got.threw
          /\ got.ret = Found(JsonRecord(last.ret))
          /\ \E i \in DOMAIN Stored(file) : Stored(file)[i] = JsonRecord(last.ret)

\* a save onto a record that differed from the payload's record returned the
\* record now stored
C22_Witness ==
  /\ Returned("save")
  /\ WithHash(Stored(last.before), last.ret.imageHash) # {}
  /\ \A i \in DOMAIN Stored(last.before) :
       Stored(last.before)[i] # JsonRecord(last.ret)
  /\ getAnalysisById(file, last.ret.id, clock, writable).ret = Found(JsonRecord(last.ret))

\* C23: after every completed save and delete, the persisted
\* metadata.totalAnalyses equals the number of records in the persisted
\* collection, starting from the store created at initialization
C23_TotalIsCount ==
  /\ file.kind = "json"
  /\ HasAnalyses(file.value) /\ HasMetadata(file.value)
  /\ file.value.metadata.totalAnalyses = Len(file.value.analyses)

\* a delete removed a record, left another, and the total is the count
C23_Witness ==
  /\ Returned("delete")
  /\ Len(Stored(file)) >= 1
  /\ Len(Stored(file)) < Len(Stored(last.before))
  /\ file.value.metadata.totalAnalyses = Len(Stored(file))

\* C24: a save whose payload carries no id, and whose generated id is held
\* by no stored record, creates a record of its own: it does not overwrite or
\* merge into a record stored before, so every stored record keeps its id
C24_AnonymousSaveAdds ==
  (/\ Returned("save")
   /\ "id" \notin DOMAIN last.arg
   /\ last.ret.id \notin StoredIds(last.before))
    => LET old == Stored(last.before)
           new == Stored(file)
       IN /\ Len(new) = Len(old) + 1
          /\ SubSeq(new, 1, Len(old)) = old

\* the operations of the record store that only read
ReadOps == {"getById", "getByHash", "list", "search", "stats"}

\* C25: getById, getByHash, list, search and stats never change the
\* persisted record store: the records and their order in the store file are
\* the same before and after the call (list and stats sort only the copy read
\* for that call), and query never changes the persisted vector store
C25_ReadsLeaveStores ==
  /\ last.op \in ReadOps
       => /\ Stored(file) = Stored(last.before)
          /\ last.before.kind = "json" => file = last.before
  /\ last.op = "query" => vstore = last.storeBefore

\* a list returned two records or more in an order that is not the order of
\* the file
C25_Witness ==
  /\ Returned("list")
  /\ Len(last.ret) >= 2
  /\ last.ret # Stored(file)
  /\ Stored(file) = Stored(last.before)

\* C4: when the write of the store file fails during save or delete, the call
\* does not end as a success (a record from save, true from delete)
C4_WriteFailureSurfaced ==
  /\ (last.op = "save" /\ ~last.canWrite) => last.threw
  /\ (last.op = "delete" /\ ~last.canWrite) => (last.threw \/ last.ret = FALSE)

\* a file that is damaged: unreadable, no JSON, or JSON without the analyses
\* collection
Damaged(f) ==
  \/ f.kind \in {"blank", "garbage", "unreadable"}
  \/ f.kind = "json" /\ ~HasAnalyses(f.value)

\* C6: on a corrupt or unreadable store file, JSON without the analyses
\* collection included, no operation throws
C6_DamagedFileIsEmptyStore ==
  (last.op # "none" /\ Damaged(last.before)) => ~last.threw

\* ret holds exactly the elements of s that pass Keep, in the order of s (the
\* elements of s are distinct)
IsSelection(ret, s, Keep(_)) ==
  /\ Len(ret) = Cardinality({i \in DOMAIN s : Keep(s[i])})
  /\ \A i \in DOMAIN s : Keep(s[i]) => \E k \in DOMAIN ret : ret[k] = s[i]
  /\ \A k \in DOMAIN ret : \E i \in DOMAIN s : Keep(s[i]) /\ ret[k] = s[i]
  /\ \A k, l \in DOMAIN ret :
       k < l => \E i, j \in DOMAIN s : i < j /\ s[i] = ret[k] /\ s[j] = ret[l]

\* the records of s whose id or imageHash is id
Addressed(s, id) ==
  {i \in DOMAIN s : ("id" \in DOMAIN s[i] /\ s[i].id = id)
                    \/ ("imageHash" \in DOMAIN s[i] /\ s[i].imageHash = id)}

\* C7: delete(id) followed by getById(id) returns not-found; delete of an id
\* that matches no record returns false and leaves the number of records
\* unchanged; delete returns true exactly when a record was removed, and it
\* removes every record whose id or imageHash is the argument and no other
C7_DeleteContract ==
  Returned("delete")
    => LET old == Stored(last.before)
           new == Stored(file)
           Untouched(a) == \A i \in Addressed(old, last.arg) : old[i] # a
       IN /\ getAnalysisById(file, last.arg, clock, writable).ret = NotFound
          /\ Addressed(old, last.arg) = {}
               => (last.ret = FALSE /\ Len(new) = Len(old))
          /\ last.ret = TRUE <=> Len(new) < Len(old)
          /\ Addressed(new, last.arg) = {}
          /\ IsSelection(new, old, Untouched)

\* a delete by a generated id removed one record and left another
C7_Witness ==
  /\ Returned("delete")
  /\ last.ret = TRUE
  /\ Stored(file) # <<>>
  /\ \E i \in DOMAIN Stored(last.before) :
       /\ Stored(last.before)[i].id = last.arg
       /\ HashOf(Stored(last.before)[i]) # last.arg

RECURSIVE SumOver(_, _)
SumOver(counts, keys) ==
  IF keys = {} THEN 0
  ELSE LET k == CHOOSE x \in keys : TRUE
       IN counts[k] + SumOver(counts, keys \ {k})

\* counts maps each value of field among the records of s to the number of
\* records holding it
IsHistogram(counts, s, field) ==
  /\ DOMAIN counts = {s[i][field] : i \in DOMAIN s}
  /\ \A v \in DOMAIN counts :
       counts[v] = Cardinality({i \in DOMAIN s : s[i][field] = v})

\* C10: stats() reports totalAnalyses equal to the number of stored records
\* and, in domains and confidenceLevels, for each value the number of records
\* holding it, so that each map sums to totalAnalyses; stats() right after
\* the save of a record with domain Medical and confidence High into an empty
\* store reports total 1, domains {Medical: 1}, confidenceLevels {High: 1}
C10_Stats ==
  /\ Returned("stats")
       => /\ last.ret.totalAnalyses = Len(Stored(file))
          /\ IsHistogram(last.ret.domains, Stored(file), "domain")
          /\ IsHistogram(last.ret.confidenceLevels, Stored(file), "confidenceLevel")
          /\ SumOver(last.ret.domains, DOMAIN last.ret.domains)
               = last.ret.totalAnalyses
          /\ SumOver(last.ret.confidenceLevels, DOMAIN last.ret.confidenceLevels)
               = last.ret.totalAnalyses
  /\ (/\ Returned("save")
      /\ Stored(last.before) = <<>>
      /\ TextOr(last.arg, "domain", EmptyText) = T_Medical
      /\ TextOr(last.arg, "confidenceLevel", EmptyText) = T_High)
       => LET stats == getStats(file, clock, writable).ret
          IN /\ stats.totalAnalyses = 1
             /\ DOMAIN stats.domains = {T_Medical}
             /\ stats.domains[T_Medical] = 1
             /\ DOMAIN stats.confidenceLevels = {T_High}
             /\ stats.confidenceLevels[T_High] = 1

\* stats() was called on a store of three records, two of one domain
C10_Witness ==
  /\ Returned("stats")
  /\ last.ret.totalAnalyses = 3
  /\ \E d \in DOMAIN last.ret.domains : last.ret.domains[d] = 2
  /\ T_Medical \in DOMAIN last.ret.domains

\* ret is s ordered by timestamp, most recent first, records of one
\* timestamp in the order of s (the elements of s are distinct)
IsMostRecentFirst(ret, s) ==
  /\ Len(ret) = Len(s)
  /\ \A i \in DOMAIN s : \E k \in DOMAIN ret : ret[k] = s[i]
  /\ \A k, l \in DOMAIN ret :
       k < l => /\ ret[k].timestamp >= ret[l].timestamp
                /\ ret[k].timestamp = ret[l].timestamp
                     => \E i, j \in DOMAIN s : i < j /\ s[i] = ret[k] /\ s[j] = ret[l]

\* the part of s that starts after offset elements and holds at most limit
\* elements
Page(s, limit, offset) ==
  LET n == IF limit <= 0 \/ offset >= Len(s) THEN 0
           ELSE IF offset + limit > Len(s) THEN Len(s) - offset
           ELSE limit
  IN [k \in 1..n |-> s[offset + k]]

\* the whole list, as list() without arguments returns it
FullList == getAllAnalyses(file, Null, 0, clock, writable).ret

\* C8 as stated: the list is ordered by timestamp descending; with a limit
\* given, whatever the limit and the offset, it is the slice of that order
\* that starts at offset and holds at most limit records
C8_ListAnyLimit ==
  Returned("list")
    => /\ last.arg.limit = Null => IsMostRecentFirst(last.ret, Stored(file))
       /\ last.arg.limit # Null
            => last.ret = Page(FullList, last.arg.limit[1],
                               IF last.arg.offset < 0 THEN 0 ELSE last.arg.offset)

\* C8, amended: the list is ordered by timestamp descending; with a limit of
\* 1 or more and an offset of 0 or more it is the slice of that order that
\* starts at offset and holds at most limit records; with no limit, and with
\* the limit 0, it is the full ordered sequence
C8_ListPositiveLimit ==
  Returned("list")
    => /\ (last.arg.limit = Null \/ last.arg.limit = <<0>>)
            => IsMostRecentFirst(last.ret, Stored(file))
       /\ (last.arg.limit # Null /\ last.arg.limit[1] >= 1 /\ last.arg.offset >= 0)
            => /\ IsMostRecentFirst(FullList, Stored(file))
               /\ last.ret = Page(FullList, last.arg.limit[1], last.arg.offset)

\* list(2, 1) on three records, not all of one timestamp, returned the two
\* that follow the most recent
C8_Witness ==
  /\ Returned("list")
  /\ last.arg = [limit |-> <<2>>, offset |-> 1]
  /\ Len(Stored(file)) = 3
  /\ Len(last.ret) = 2
  /\ last.ret[1] # Stored(file)[2]
  /\ \E i, j \in DOMAIN Stored(file) :
       Stored(file)[i].timestamp # Stored(file)[j].timestamp

\* two characters that are the same letter, whatever their case
SameLetter(c, d) ==
  \/ c = d
  \/ \E i \in DOMAIN UpperCase : {c, d} = {UpperCase[i], LowerCase[i]}

\* q occurs in s, case ignored
OccursIn(q, s) ==
  \E shift \in 0..(Len(s) - Len(q)) :
    \A k \in DOMAIN q : SameLetter(q[k], s[shift + k])

\* the texts search looks into
SearchedTexts(a) ==
  {a.imageSummary, a.detailedExplanation, a.domain, a.extractedText, a.filename}
    \cup {a.detectedElements[e] : e \in DOMAIN a.detectedElements}

\* C9: search(query) returns exactly the records in which query occurs, case
\* ignored, in imageSummary, detailedExplanation, domain, extractedText,
\* filename or an element of detectedElements, in store order
C9_SearchExact ==
  Returned("search")
    => LET Hit(a) == \E t \in SearchedTexts(a) : OccursIn(last.arg, t)
       IN IsSelection(last.ret, Stored(file), Hit)

\* search("apple") found the record with the element "Red Apple" and left
\* out another record
C9_Witness ==
  /\ Returned("search")
  /\ last.arg = T_apple
  /\ Len(last.ret) = 1
  /\ \E e \in DOMAIN last.ret[1].detectedElements :
       last.ret[1].detectedElements[e] = T_RedApple
  /\ Len(Stored(file)) >= 2

-----------------------------------------------------------------------------
(* Properties of the analysis handlers *)

\* the last request was an analysis that completed: 200 from the standard
\* endpoint, the done event from the streaming endpoint
Completed ==
  \/ last.op = "analyze" /\ last.ret.status = 200
  \/ last.op = "stream" /\ last.ret.status = 200 /\ last.ret.body.event = "done"

\* C5: an analysis, through either endpoint, of an image whose analysis had
\* completed before (same content hash of the resized image) adds no record
\* to the database: it updates the record the first analysis created.
C5_ReanalysisUpdates ==
  (last.op \in {"analyze", "stream"} /\ Completed /\ last.repeated)
    => Len(Stored(file)) = Len(Stored(last.before))


\* the result a completed analysis carries: the body of the 200 response, the
\* result of the done event
ResultOfLast ==
  IF last.op = "analyze" THEN last.ret.body ELSE last.ret.body.result

\* C17: whenever POST /api/analyze responds 200, or the streaming endpoint
\* sends its done event, the record store holds a record retrievable by the id
\* the result carries
C17_CompletedIsStored ==
  (last.op \in {"analyze", "stream"} /\ Completed)
    => LET got == getAnalysisById(file, ResultOfLast.id, clock, writable)
       IN ~got.threw /\ got.ret # NotFound

\* C18: the related entries of a completed analysis are entries the vector
\* store held before the analysis added its own: each related result is built
\* from an entry of its own in the store as it was when the request arrived
C18_RelatedArePrior ==
  (last.op \in {"analyze", "stream"} /\ Completed)
    => LET related == ResultOfLast.related
           store == last.storeBefore
       IN \E from \in [DOMAIN related -> DOMAIN store] :
            /\ \A k, l \in DOMAIN related : k # l => from[k] # from[l]
            /\ \A k \in DOMAIN related :
                 /\ related[k].id = store[from[k]].id
                 /\ related[k].summary = store[from[k]].summary
                 /\ related[k].ts = store[from[k]].ts

\* the status a GET for id would have now
GetStatus(id) ==
  AnalysisHandler(file, [method |-> "GET", id |-> id], clock, writable).resp.status

\* C19: GET /api/analyses/[id] responds 404 exactly when no stored record has
\* that id or imageHash, and 200 with the record otherwise; DELETE responds
\* 200 exactly when at least one record was removed and 404 otherwise; after
\* a DELETE that responded 200 a GET for the same id responds 404; any other
\* method responds 405
C19_ByIdStatus ==
  last.op = "byId"
    => LET old == Stored(last.before)
           hits == Addressed(old, last.arg.id)
           status == last.ret.status
       IN /\ last.arg.method = "GET"
               => /\ status = 404 <=> hits = {}
                  /\ status = 200 <=> hits # {}
                  /\ status = 200 => \E i \in hits : last.ret.body = old[i]
                  /\ file = last.before
          /\ last.arg.method = "DELETE"
               => /\ status = 200 <=> Len(Stored(file)) < Len(old)
                  /\ status = 404 <=> Len(Stored(file)) = Len(old)
                  /\ status = 200 <=> hits # {}
                  /\ status = 200 => GetStatus(last.arg.id) = 404
          /\ last.arg.method \notin {"GET", "DELETE"}
               => status = 405 /\ file = last.before

\* a DELETE answered 200 and left a record in the store, and a GET for the
\* id deleted now answers 404
C19_Witness ==
  /\ last.op = "byId"
  /\ last.arg.method = "DELETE"
  /\ last.ret.status = 200
  /\ Stored(file) # <<>>
  /\ GetStatus(last.arg.id) = 404

\* the places of a trace where the handler touches the disk, processes the
\* image or calls another service
WorkKinds == {"fs", "sharp", "api"}
Opens(t) == \E i \in 1..Len(t) : t[i].kind = "writeHead" \/ t[i].kind \in {"sse:progress", "sse:partial", "sse:error", "sse:done"}

\* C20: the streaming handler sends the SSE response headers and the
\* 'Connection established' progress event before any file system access,
\* image processing or call to another service; a request whose method is
\* not GET or that has no id is answered 405 or 400 and opens no stream
C20_HeadersBeforeWork ==
  last.op = "stream"
    => LET t == last.effects IN
       IF last.arg.method # "GET"
       THEN t = <<Effect("json", "405")>> /\ last.ret.status = 405 /\ ~Opens(t)
       ELSE IF last.arg.id = NoId
       THEN t = <<Effect("json", "400")>> /\ last.ret.status = 400 /\ ~Opens(t)
       ELSE /\ Len(t) >= 2
            /\ t[1].kind = "writeHead"
            /\ t[2] = sseSend("progress", "Connection established")
            /\ \A i \in 1..Len(t) : t[i].kind \in WorkKinds => i > 2
            /\ last.ret.status = 200
            /\ \E i \in 3..Len(t) : t[i].kind = "sse:" \o last.ret.body.event

\* a stream that read the upload, processed the image, called the vision
\* model and ended with its done event
C20_Witness ==
  /\ last.op = "stream"
  /\ last.ret.status = 200
  /\ last.ret.body.event = "done"
  /\ \A k \in WorkKinds : \E i \in 1..Len(last.effects) : last.effects[i].kind = k
  /\ \E i \in 1..Len(last.effects) : last.effects[i].what = "chat.completions.create vision"

\* the places of a trace that hold an event of the stream, and those that
\* hold a terminal event
Events(t) == {i \in DOMAIN t : t[i].kind \in {"sse:progress", "sse:partial", "sse:error", "sse:done"}}
Terminals(t) == {i \in DOMAIN t : t[i].kind \in {"sse:error", "sse:done"}}

\* C26: every stream the streaming handler opens ends: on every path the
\* handler sends exactly one terminal event (done or error, never both),
\* sends no further event after it, and then ends the response; done is sent
\* only after the database save was attempted
C26_OneTerminalEventLast ==
  (last.op = "stream" /\ last.ret.status = 200)
    => LET t == last.effects IN
       /\ Cardinality(Terminals(t)) = 1
       /\ \A i \in Terminals(t) : \A j \in Events(t) : j <= i
       /\ t[Len(t)] = Effect("end", "res.end")
       /\ \A i \in DOMAIN t :
            t[i].kind = "sse:done"
              => \E j \in 1..(i - 1) : t[j] = Effect("fs", "saveAnalysis")

\* the last request was a POST of a valid image to one of the POST handlers
PostedImage ==
  /\ last.op \in {"analyze", "analyzeSimple", "analyzeDetailed"}
  /\ last.arg.method = "POST"
  /\ last.arg.image \in Images

\* C27: with no OPENAI_API_KEY configured (mock mode) every POST analysis
\* handler given a valid image responds 200 with isMockData true; it never
\* ends in the 500 'Analysis failed' response
C27_MockModeAnswers ==
  (PostedImage /\ mockMode)
    => /\ last.ret.status = 200
       /\ last.ret.body.isMockData

\* the stream of the last request read a file of the uploads directory
ReadAFile ==
  /\ last.op = "stream"
  /\ \E i \in DOMAIN last.effects : last.effects[i] = Effect("fs", "readFileSync filepath")

\* C29: the streaming endpoint analyses a file only when its id query
\* parameter equals the full id returned by an earlier /api/upload-temp
\* call: an id that is only a prefix of another upload's id selects no file
C29_FullIdSelects ==
  ReadAFile => \E u \in uploads : u.id = last.arg.id

-----------------------------------------------------------------------------
(* Properties of the page *)

\* C28: after one click on real-time analysis a connection that closes
\* without a result is retried at most once: a second connection failure
\* ends the attempt with the 'Connection failed' error and loading set to
\* false, so one click causes at most two uploads and two streams
C28_AtMostOneRetry ==
  /\ page.uploads <= 2
  /\ page.streams <= 2
  /\ (last.op = "connectionFails" /\ page.streams = 2)
       => page.error = "Connection failed" /\ ~page.loading

\* C30: when GET /api/analyses?stats=true responds successfully the page's
\* stats state is set from the response, so the header shows the total
\* number of analyses held in the database after page load and after each
\* completed analysis
C30_StatsShown ==
  (/\ last.op \in {"mount", "streamAnswers"}
   /\ last.statsResp # Null
   /\ last.statsResp[1].status = 200)
    => /\ page.stats # Null
       /\ page.stats[1].totalAnalyses = Len(Stored(file))

-----------------------------------------------------------------------------
(* Properties of the vector store *)

\* the topK a query ran with
TopKOf(q) == IF q.topK = Null THEN DefaultTopK ELSE q.topK[1]

\* C11: findSimilar with topK less than or equal to 0, negative topK
\* included, returns an empty sequence whatever the store holds
C11_NoResultForTopKBelowOne ==
  (last.op = "query" /\ TopKOf(last.arg) <= 0) => last.ret = <<>>

\* the result findSimilar builds from entry e for the query vector v
ResultOf(e, v) ==
  [id |-> e.id, summary |-> e.summary, score |-> cosine(v, e.embedding), ts |-> e.ts]

Min(a, b) == IF a < b THEN a ELSE b

\* C12: findSimilar with topK >= 1 on a store of n entries returns exactly
\* min(topK, n) results in order of non-increasing score, each built from a
\* stored entry of its own as {id, summary, score, ts}, none of the entries
\* left out scoring higher than one returned; on an empty store it returns
\* the empty sequence
C12_TopKResults ==
  (last.op = "query" /\ TopKOf(last.arg) >= 1)
    => LET store == last.storeBefore
           ret == last.ret
           v == last.arg.embedding
       IN /\ ~last.threw
          /\ Len(ret) = Min(TopKOf(last.arg), Len(store))
          /\ \A k, l \in DOMAIN ret : k < l => ScoreGE(ret[k].score, ret[l].score)
          /\ \E from \in [DOMAIN ret -> DOMAIN store] :
               /\ \A k, l \in DOMAIN ret : k # l => from[k] # from[l]
               /\ \A k \in DOMAIN ret : ret[k] = ResultOf(store[from[k]], v)
               /\ \A i \in DOMAIN store :
                    (\A k \in DOMAIN ret : from[k] # i)
                      => \A k \in DOMAIN ret :
                           ScoreGE(ret[k].score, cosine(v, store[i].embedding))
          /\ store = <<>> => ret = <<>>

\* findSimilar(v, 2) on three entries returned two results, the better one
\* built from the entry stored last
C12_Witness ==
  /\ last.op = "query"
  /\ last.arg.topK = <<2>>
  /\ Len(last.storeBefore) = 3
  /\ Len(last.ret) = 2
  /\ last.ret[1] = ResultOf(last.storeBefore[3], last.arg.embedding)
  /\ last.ret[1].score # last.ret[2].score

\* the score 0
ZeroScore == [num |-> 0, sq |-> 1]
IsZeroVector(v) == \A i \in DOMAIN v : v[i] = 0

\* C13: the similarity of two vectors is 0 whenever either has magnitude 0:
\* a query with the zero vector scores every result 0, a stored zero vector
\* comes back with score 0, and no score is undefined (0 / 0)
C13_ZeroMagnitudeScoresZero ==
  last.op = "query"
    => LET store == last.storeBefore
           v == last.arg.embedding
       IN /\ ~last.threw
          /\ \A i \in DOMAIN store :
               (IsZeroVector(v) \/ IsZeroVector(store[i].embedding))
                 => cosine(v, store[i].embedding) = ZeroScore
          /\ \A k \in DOMAIN last.ret : last.ret[k].score.sq > 0
          /\ IsZeroVector(v) => \A k \in DOMAIN last.ret : last.ret[k].score = ZeroScore
          /\ TopKOf(last.arg) >= Len(store)
               => \A i \in DOMAIN store :
                    IsZeroVector(store[i].embedding)
                      => \E k \in DOMAIN last.ret :
                           /\ last.ret[k].id = store[i].id
                           /\ last.ret[k].score = ZeroScore

\* a query with a vector other than zero met a stored zero vector and
\* returned it with score 0 beside a result with another score
C13_Witness ==
  /\ last.op = "query"
  /\ ~IsZeroVector(last.arg.embedding)
  /\ \E i \in DOMAIN last.storeBefore : IsZeroVector(last.storeBefore[i].embedding)
  /\ \E k, l \in DOMAIN last.ret :
       last.ret[k].score = ZeroScore /\ last.ret[l].score # ZeroScore

-----------------------------------------------------------------------------
(* Properties of concurrent saves *)

\* the record of the k-th completed save is in the store
Kept(k) ==
  \E i \in DOMAIN Stored(file) : Stored(file)[i].id = inflight.completed[k].id

\* the j-th completed save read the file before the k-th had written it
ReadBefore(j, k) == inflight.completed[j].seen < k

\* C16: two saves by concurrent callers can interleave so that both read the
\* same store file and the later writer's rewrite of the whole file discards
\* the earlier writer's record.  As an invariant: the record of a completed
\* save is missing from the store only when a save that completed after it
\* had read the file before it wrote; the state itself is C16_LostUpdate.
C16_LossOnlyByOverlap ==
  \A k \in DOMAIN inflight.completed :
    ~Kept(k) => \E j \in DOMAIN inflight.completed : j > k /\ ReadBefore(j, k)

\* two saves read the same file, both completed, and the record of the one
\* that wrote first is missing from the store
C16_LostUpdate ==
  /\ last.op = "save" /\ ~last.threw
  /\ \E k, j \in DOMAIN inflight.completed :
       /\ k < j
       /\ inflight.completed[k].seen = inflight.completed[j].seen
       /\ inflight.completed[k].caller # inflight.completed[j].caller
       /\ ~Kept(k)
       /\ Kept(j)

====
